---- MODULE Spec2Model ----
(***************************************************************************)
(* The immediate-mode triangle batcher of the SDL_RenderGeometry demos:    *)
(* the RenderState stack (push / pop / apply), triangle submission with    *)
(* behind-camera and screen-boundary culling (addTriangle), and the        *)
(* sort-and-draw step (flush).  Four generations  of the code are          *)
(* modelled side by side, selected by `variant`:                           *)
(*   "p008"  src/unnamed/part_001          (part 008-alt, outline boxes)    *)
(*   "p007"  src/unnamed/part_002          (part 007, box swarm)            *)
(*   "p002"  src/SDL_RenderGeometry/c001.cc (part 002, batched triangles)   *)
(*   "p003"  src/unnamed/part_003          (part 003, transforms)           *)
(*                                                                         *)
(* Numbers.  The C++ code computes in `float`.  Matrices and input         *)
(* vectors are small integers here, on which float sums and products are  *)
(* exact.   The quotients of perspectiveDivide are kept as exact          *)
(* fractions [num, den]; rounding to float is monotone and 0, WIDTH and    *)
(* HEIGHT are floats, so every comparison the code makes has the same      *)
(* outcome on the fraction.  den = 0 encodes +/-INFINITY and NaN.          *)
(***************************************************************************)
EXTENDS Integers, Sequences, FiniteSets, TLC

VARIABLES
  variant,               \* which program the process is running
  state,                 \* static RenderState state
  stack,                 \* static std::vector<RenderState> stack
  triangles,             \* static std::vector<Triangle> triangles
  reverseSortTriangles,  \* static bool reverseSortTriangles
  status,                \* "running", or how the process ended
  call,                  \* history: the last call, its arguments, its result
  before,                \* history: state, stack, triangles, saved before that call
  saved,                 \* history: the states push() was called in and that no
                         \* pop() has taken back yet, oldest first
  napply,                \* history: number of apply() calls so far, up to MaxApply
  pc,                    \* the line of main() the process is at, 0 outside the demos
  perspectiveEnabled,    \* main()'s local bool perspectiveEnabled, of the demos
  pcm,                   \* FFT visualizers: std::vector<float> pcm, in chunks
  buffer,                \* FFT visualizers: std::vector<std::complex<float>> buffer
  audio                  \* FFT visualizers: where the audio thread is, and history:
                         \* the chunks delivered and how often each was copied

vars == <<variant, state, stack, triangles, reverseSortTriangles, status,
          call, before, saved, napply, pc, perspectiveEnabled, pcm, buffer, audio>>

----------------------------------------------------------------------------
(* Bounds of the model *)

MaxDepth == 2     \* push() is not called with this many states saved
MaxBatch == 2     \* nothing is submitted once the batch holds this many
MaxApply == 2     \* apply() is called at most this many times

----------------------------------------------------------------------------
(* float *)

Abs(i) == IF i < 0 THEN -i ELSE i

RECURSIVE Gcd(_, _)
Gcd(a, b) == IF b = 0 THEN a ELSE Gcd(b, a % b)

\* n / d for d > 0, in lowest terms
Frac(n, d) ==
  LET g == Gcd(Abs(n), d) IN [num |-> n \div g, den |-> d \div g]

F(i) == [num |-> i, den |-> 1]
HALF == Frac(1, 2)
INFINITY == [num |-> 1, den |-> 0]
NegINFINITY == [num |-> -1, den |-> 0]
NaN == [num |-> 0, den |-> 0]

IsNaN(a) == a.num = 0 /\ a.den = 0

\* a < b on floats; false when either is NaN
Less(a, b) ==
  IF IsNaN(a) \/ IsNaN(b) THEN FALSE
  ELSE IF a.den = 0 /\ b.den = 0 THEN a.num < b.num
  ELSE a.num * b.den < b.num * a.den

\* a == b on floats; false when either is NaN
Same(a, b) == ~IsNaN(a) /\ ~IsNaN(b) /\ a = b

\* x / w on floats, x and w integers
Div(x, w) ==
  IF w > 0 THEN Frac(x, w)
  ELSE IF w < 0 THEN Frac(-x, -w)
  ELSE IF x > 0 THEN INFINITY
  ELSE IF x < 0 THEN NegINFINITY
  ELSE NaN

\* std::min(a, b) and std::max(a, b)
fmin(a, b) == IF Less(b, a) THEN b ELSE a
fmax(a, b) == IF Less(a, b) THEN b ELSE a

----------------------------------------------------------------------------
(* Program constants *)

WIDTH == 800
HEIGHT == 600

WHITE == [r |-> 255, g |-> 241, b |-> 232, a |-> 255]
BLACK == [r |-> 0, g |-> 0, b |-> 0, a |-> 255]
PEACH == [r |-> 255, g |-> 157, b |-> 129, a |-> 255]
TRANSPARENT == [r |-> 0, g |-> 0, b |-> 0, a |-> 0]

----------------------------------------------------------------------------
(* Vector and Matrix *)

Vec(x, y, z, w) == [x |-> x, y |-> y, z |-> z, w |-> w]
Mat(x, y, z, w) == [x |-> x, y |-> y, z |-> z, w |-> w]

dot(lhs, rhs) == lhs.x * rhs.x + lhs.y * rhs.y + lhs.z * rhs.z + lhs.w * rhs.w

xColumn(m) == Vec(m.x.x, m.y.x, m.z.x, m.w.x)
yColumn(m) == Vec(m.x.y, m.y.y, m.z.y, m.w.y)
zColumn(m) == Vec(m.x.z, m.y.z, m.z.z, m.w.z)
wColumn(m) == Vec(m.x.w, m.y.w, m.z.w, m.w.w)

\* operator*(const Matrix &, const Vector &)
MatVec(lhs, rhs) == Vec(dot(lhs.x, rhs), dot(lhs.y, rhs), dot(lhs.z, rhs), dot(lhs.w, rhs))

\* operator* that takes the rows of rhs for its columns
MatMul_RowByRow(lhs, rhs) ==
  Mat(Vec(dot(lhs.x, rhs.x), dot(lhs.x, rhs.y), dot(lhs.x, rhs.z), dot(lhs.x, rhs.w)),
      Vec(dot(lhs.y, rhs.x), dot(lhs.y, rhs.y), dot(lhs.y, rhs.z), dot(lhs.y, rhs.w)),
      Vec(dot(lhs.z, rhs.x), dot(lhs.z, rhs.y), dot(lhs.z, rhs.z), dot(lhs.z, rhs.w)),
      Vec(dot(lhs.w, rhs.x), dot(lhs.w, rhs.y), dot(lhs.w, rhs.z), dot(lhs.w, rhs.w)))

\* operator*(const Matrix &, const Matrix &)
MatMul(lhs, rhs) ==
  Mat(Vec(dot(lhs.x, xColumn(rhs)), dot(lhs.x, yColumn(rhs)),
          dot(lhs.x, zColumn(rhs)), dot(lhs.x, wColumn(rhs))),
      Vec(dot(lhs.y, xColumn(rhs)), dot(lhs.y, yColumn(rhs)),
          dot(lhs.y, zColumn(rhs)), dot(lhs.y, wColumn(rhs))),
      Vec(dot(lhs.z, xColumn(rhs)), dot(lhs.z, yColumn(rhs)),
          dot(lhs.z, zColumn(rhs)), dot(lhs.z, wColumn(rhs))),
      Vec(dot(lhs.w, xColumn(rhs)), dot(lhs.w, yColumn(rhs)),
          dot(lhs.w, zColumn(rhs)), dot(lhs.w, wColumn(rhs))))

IDENTITY == Mat(Vec(1, 0, 0, 0), Vec(0, 1, 0, 0), Vec(0, 0, 1, 0), Vec(0, 0, 0, 1))

translation(x, y, z) ==
  Mat(Vec(1, 0, 0, x), Vec(0, 1, 0, y), Vec(0, 0, 1, z), Vec(0, 0, 0, 1))

scaling(x, y, z) ==
  Mat(Vec(x, 0, 0, 0), Vec(0, y, 0, 0), Vec(0, 0, z, 0), Vec(0, 0, 0, 1))

\* perspective(fov, aspect, near, far) with f = 1 / tan(fov / 2) given; the
\* quotients are taken where they are whole (f = aspect = 1, near = 1, far = 3)
perspective(f, aspect, near, far) ==
  Mat(Vec(f \div aspect, 0, 0, 0),
      Vec(0, f, 0, 0),
      Vec(0, 0, (far + near) \div (near - far), (2 * far * near) \div (near - far)),
      Vec(0, 0, -1, 0))

----------------------------------------------------------------------------
(* RenderState: push, pop, apply *)

\* static RenderState state = {IDENTITY, WHITE, BLACK}; part 007 has no strokeColor
InitialState(v) ==
  IF v = "p008"
  THEN [transform |-> IDENTITY, fillColor |-> WHITE, strokeColor |-> BLACK]
  ELSE [transform |-> IDENTITY, fillColor |-> WHITE]

\* push() that saves the state twice
push_Twice(s, stk) == Append(Append(stk, s), s)

\* inline void push() { stack.push_back(state); }
push(s, stk) == Append(stk, s)

\* inline void assertThat(bool condition): panic("ASSERTION FAILED"), which
\* exits the process, unless the condition holds
assertThat(condition) == IF condition THEN "running" ELSE "panic"

\* pop() that restores stack.back() and forgets stack.pop_back()
pop_KeepsEntry(s, stk) ==
  IF Len(stk) = 0
  THEN [status |-> "panic", state |-> s, stack |-> stk]
  ELSE [status |-> "running", state |-> stk[Len(stk)], stack |-> stk]

\* pop() that returns without effect when the stack is empty
pop_EmptyIsNoOp(s, stk) ==
  IF Len(stk) = 0
  THEN [status |-> "running", state |-> s, stack |-> stk]
  ELSE [status |-> "running", state |-> stk[Len(stk)],
        stack |-> SubSeq(stk, 1, Len(stk) - 1)]

\* pop() that takes the oldest saved state: stack.front() and erase(begin())
pop_Front(s, stk) ==
  IF Len(stk) = 0
  THEN [status |-> "panic", state |-> s, stack |-> stk]
  ELSE [status |-> "running", state |-> stk[1], stack |-> SubSeq(stk, 2, Len(stk))]

\* pop() that restores the colors and leaves the transform as it is
pop_KeepsTransform(s, stk) ==
  IF Len(stk) = 0
  THEN [status |-> "panic", state |-> s, stack |-> stk]
  ELSE [status |-> "running",
        state |-> [stk[Len(stk)] EXCEPT !.transform = s.transform],
        stack |-> SubSeq(stk, 1, Len(stk) - 1)]

\* inline void pop(): assertThat(stack.size()); state = stack.back(); stack.pop_back();
pop(s, stk) ==
  IF assertThat(Len(stk) # 0) = "panic"
  THEN [status |-> "panic", state |-> s, stack |-> stk]
  ELSE [status |-> "running", state |-> stk[Len(stk)],
        stack |-> SubSeq(stk, 1, Len(stk) - 1)]

\* apply() that multiplies from the left: state.transform = matrix * state.transform
apply_LeftMultiplies(s, matrix) == [s EXCEPT !.transform = MatMul(matrix, s.transform)]

\* inline void apply(const Matrix &matrix) { state.transform *= matrix; }
apply(s, matrix) == [s EXCEPT !.transform = MatMul(s.transform, matrix)]

----------------------------------------------------------------------------
(* Vertex, Triangle, AABB *)

\* struct Vertex {x, y, z; color; u, v}; a Triangle is the sequence vertices[0..2]
Vertex(p, color, u, v) ==
  [x |-> p.x, y |-> p.y, z |-> p.z, color |-> color, u |-> u, v |-> v]

\* struct Vertex {x, y, z; color} of parts 002 and 003
PlainVertex(p, color) == [x |-> p.x, y |-> p.y, z |-> p.z, color |-> color]

minPairwise(lhs, rhs) ==
  Vec(fmin(lhs.x, rhs.x), fmin(lhs.y, rhs.y), fmin(lhs.z, rhs.z), fmin(lhs.w, rhs.w))

maxPairwise(lhs, rhs) ==
  Vec(fmax(lhs.x, rhs.x), fmax(lhs.y, rhs.y), fmax(lhs.z, rhs.z), fmax(lhs.w, rhs.w))

AABB_BOTTOM ==
  [min |-> Vec(INFINITY, INFINITY, INFINITY, INFINITY),
   max |-> Vec(NegINFINITY, NegINFINITY, NegINFINITY, NegINFINITY)]

AABB_TOP ==
  [min |-> Vec(NegINFINITY, NegINFINITY, NegINFINITY, NegINFINITY),
   max |-> Vec(INFINITY, INFINITY, INFINITY, INFINITY)]

\* operator| that keeps the max of its left operand
Union_LeftMax(lhs, rhs) == [min |-> minPairwise(lhs.min, rhs.min), max |-> lhs.max]

\* operator|(const AABB &, const AABB &)
Union(lhs, rhs) ==
  [min |-> minPairwise(lhs.min, rhs.min), max |-> maxPairwise(lhs.max, rhs.max)]

\* operator&(const AABB &, const AABB &)
Intersection(lhs, rhs) ==
  [min |-> maxPairwise(lhs.min, rhs.min), max |-> minPairwise(lhs.max, rhs.max)]

----------------------------------------------------------------------------
(* addTriangle *)

\* v.x /= v.w; v.y /= v.w; v.z /= v.w; v.w = 1.0
perspectiveDivide(v) == Vec(Div(v.x, v.w), Div(v.y, v.w), Div(v.z, v.w), F(1))

\* the four tests with <= and >=: a vertex on the boundary counts as outside
OffScreen_BoundaryIsOutside(a, b, c) ==
  \/ ~Less(F(0), a.x) /\ ~Less(F(0), b.x) /\ ~Less(F(0), c.x)
  \/ ~Less(a.x, F(WIDTH)) /\ ~Less(b.x, F(WIDTH)) /\ ~Less(c.x, F(WIDTH))
  \/ ~Less(F(0), a.y) /\ ~Less(F(0), b.y) /\ ~Less(F(0), c.y)
  \/ ~Less(a.y, F(HEIGHT)) /\ ~Less(b.y, F(HEIGHT)) /\ ~Less(c.y, F(HEIGHT))

\* the four tests with || for &&: one vertex beyond a boundary is enough
OffScreen_AnyVertex(a, b, c) ==
  \/ Less(a.x, F(0)) \/ Less(b.x, F(0)) \/ Less(c.x, F(0))
  \/ Less(F(WIDTH), a.x) \/ Less(F(WIDTH), b.x) \/ Less(F(WIDTH), c.x)
  \/ Less(a.y, F(0)) \/ Less(b.y, F(0)) \/ Less(c.y, F(0))
  \/ Less(F(HEIGHT), a.y) \/ Less(F(HEIGHT), b.y) \/ Less(F(HEIGHT), c.y)

\* the four "entirely on other side" tests of addTriangle
OffScreen(a, b, c) ==
  \/ Less(a.x, F(0)) /\ Less(b.x, F(0)) /\ Less(c.x, F(0))
  \/ Less(F(WIDTH), a.x) /\ Less(F(WIDTH), b.x) /\ Less(F(WIDTH), c.x)
  \/ Less(a.y, F(0)) /\ Less(b.y, F(0)) /\ Less(c.y, F(0))
  \/ Less(F(HEIGHT), a.y) /\ Less(F(HEIGHT), b.y) /\ Less(F(HEIGHT), c.y)

\* addTriangle that skips a triangle only when all three vertices are behind
\* the camera (&& for ||)
addTriangle_AllBehind(s, tris, color, ia, ib, ic, uv) ==
  LET a0 == MatVec(s.transform, ia)
      b0 == MatVec(s.transform, ib)
      c0 == MatVec(s.transform, ic)
      a == perspectiveDivide(a0)
      b == perspectiveDivide(b0)
      c == perspectiveDivide(c0)
  IN IF (a0.w <= 0 /\ b0.w <= 0 /\ c0.w <= 0) \/ OffScreen(a, b, c)
     THEN [triangles |-> tris, ret |-> AABB_BOTTOM]
     ELSE [triangles |->
             Append(tris, <<Vertex(a, color, uv[1], uv[2]),
                            Vertex(b, color, uv[3], uv[4]),
                            Vertex(c, color, uv[5], uv[6])>>),
           ret |-> [min |-> minPairwise(a, minPairwise(b, c)),
                    max |-> maxPairwise(a, maxPairwise(b, c))]]

\* addTriangle that bounds only the first two vertices
addTriangle_BoundOfTwo(s, tris, color, ia, ib, ic, uv) ==
  LET a0 == MatVec(s.transform, ia)
      b0 == MatVec(s.transform, ib)
      c0 == MatVec(s.transform, ic)
      a == perspectiveDivide(a0)
      b == perspectiveDivide(b0)
      c == perspectiveDivide(c0)
  IN IF a0.w <= 0 \/ b0.w <= 0 \/ c0.w <= 0 \/ OffScreen(a, b, c)
     THEN [triangles |-> tris, ret |-> AABB_BOTTOM]
     ELSE [triangles |->
             Append(tris, <<Vertex(a, color, uv[1], uv[2]),
                            Vertex(b, color, uv[3], uv[4]),
                            Vertex(c, color, uv[5], uv[6])>>),
           ret |-> [min |-> minPairwise(a, b), max |-> maxPairwise(a, b)]]

\* part 008: AABB addTriangle(color, ia, ib, ic, u1, v1, u2, v2, u3, v3);
\* uv is <<u1, v1, u2, v2, u3, v3>>.  The result is the batch and the return value.
addTriangle(s, tris, color, ia, ib, ic, uv) ==
  LET a0 == MatVec(s.transform, ia)
      b0 == MatVec(s.transform, ib)
      c0 == MatVec(s.transform, ic)
  IN IF a0.w <= 0 \/ b0.w <= 0 \/ c0.w <= 0
     THEN [triangles |-> tris, ret |-> AABB_BOTTOM]
     ELSE LET a == perspectiveDivide(a0)
              b == perspectiveDivide(b0)
              c == perspectiveDivide(c0)
          IN IF OffScreen(a, b, c)
             THEN [triangles |-> tris, ret |-> AABB_BOTTOM]
             ELSE [triangles |->
                     Append(tris, <<Vertex(a, color, uv[1], uv[2]),
                                    Vertex(b, color, uv[3], uv[4]),
                                    Vertex(c, color, uv[5], uv[6])>>),
                   ret |-> [min |-> minPairwise(a, minPairwise(b, c)),
                            max |-> maxPairwise(a, maxPairwise(b, c))]]

\* part 007: void addTriangle(ia, ib, ic, u1, v1, u2, v2, u3, v3), colored by
\* state.fillColor.  The result is the batch.
addTriangle007(s, tris, ia, ib, ic, uv) ==
  LET a0 == MatVec(s.transform, ia)
      b0 == MatVec(s.transform, ib)
      c0 == MatVec(s.transform, ic)
  IN IF a0.w <= 0 \/ b0.w <= 0 \/ c0.w <= 0
     THEN tris
     ELSE LET a == perspectiveDivide(a0)
              b == perspectiveDivide(b0)
              c == perspectiveDivide(c0)
          IN IF OffScreen(a, b, c)
             THEN tris
             ELSE Append(tris, <<Vertex(a, s.fillColor, uv[1], uv[2]),
                                 Vertex(b, s.fillColor, uv[3], uv[4]),
                                 Vertex(c, s.fillColor, uv[5], uv[6])>>)

\* a Vector of integer floats, as stored in a Vertex
FVec(p) == Vec(F(p.x), F(p.y), F(p.z), F(p.w))

\* addTriangle that puts the triangle at the front of the batch
addTriangle002_AtFront(tris, color, a, b, c) ==
  <<<<PlainVertex(FVec(a), color), PlainVertex(FVec(b), color),
      PlainVertex(FVec(c), color)>>>> \o tris

\* part 002: void addTriangle(color, a, b, c): no transform, no culling
addTriangle002(tris, color, a, b, c) ==
  Append(tris, <<PlainVertex(FVec(a), color), PlainVertex(FVec(b), color),
                 PlainVertex(FVec(c), color)>>)

----------------------------------------------------------------------------
(* addTriangle on floats.  state.transform * v may be any vector of floats,  *)
(* infinities and NaN among them, whatever the transform and the vertex are;  *)
(* what addTriangle does with the three products is modelled on such vectors. *)

\* a <= b on floats; false when either is NaN
LessEq(a, b) == Less(a, b) \/ Same(a, b)

Neg(a) == [num |-> -a.num, den |-> a.den]

\* x / w on floats
FDiv(x, w) ==
  IF IsNaN(x) \/ IsNaN(w) THEN NaN
  ELSE IF w.den = 0 THEN (IF x.den = 0 THEN NaN ELSE F(0))
  ELSE IF x.den = 0 THEN (IF w.num < 0 THEN Neg(x) ELSE x)
  ELSE Div(x.num * w.den, x.den * w.num)

\* perspectiveDivide(Vector &v) on floats
perspectiveDivideF(v) == Vec(FDiv(v.x, v.w), FDiv(v.y, v.w), FDiv(v.z, v.w), F(1))

\* addTriangle that divides before it tests w
addTriangleF_DividesFirst(tris, color, a0, b0, c0, uv) ==
  LET a == perspectiveDivideF(a0)
      b == perspectiveDivideF(b0)
      c == perspectiveDivideF(c0)
  IN IF LessEq(a0.w, F(0)) \/ LessEq(b0.w, F(0)) \/ LessEq(c0.w, F(0)) \/ OffScreen(a, b, c)
     THEN [triangles |-> tris, ret |-> AABB_BOTTOM, divided |-> <<a0, b0, c0>>]
     ELSE [triangles |->
             Append(tris, <<Vertex(a, color, uv[1], uv[2]), Vertex(b, color, uv[3], uv[4]),
                            Vertex(c, color, uv[5], uv[6])>>),
           ret |-> [min |-> minPairwise(a, minPairwise(b, c)),
                    max |-> maxPairwise(a, maxPairwise(b, c))],
           divided |-> <<a0, b0, c0>>]

\* parts 008 and 007: addTriangle from the products a0, b0, c0 of
\* state.transform with its vertices on; `divided` are the vectors
\* perspectiveDivide was called on
addTriangleF(tris, color, a0, b0, c0, uv) ==
  IF LessEq(a0.w, F(0)) \/ LessEq(b0.w, F(0)) \/ LessEq(c0.w, F(0))
  THEN [triangles |-> tris, ret |-> AABB_BOTTOM, divided |-> <<>>]
  ELSE LET a == perspectiveDivideF(a0)
           b == perspectiveDivideF(b0)
           c == perspectiveDivideF(c0)
       IN IF OffScreen(a, b, c)
          THEN [triangles |-> tris, ret |-> AABB_BOTTOM, divided |-> <<a0, b0, c0>>]
          ELSE [triangles |->
                  Append(tris, <<Vertex(a, color, uv[1], uv[2]),
                                 Vertex(b, color, uv[3], uv[4]),
                                 Vertex(c, color, uv[5], uv[6])>>),
                ret |-> [min |-> minPairwise(a, minPairwise(b, c)),
                         max |-> maxPairwise(a, maxPairwise(b, c))],
                divided |-> <<a0, b0, c0>>]

----------------------------------------------------------------------------
\* std::reverse left out
Reverse_Nothing(seq) == seq

\* std::reverse(triangles.begin(), triangles.end())
Reverse(seq) == [i \in 1..Len(seq) |-> seq[Len(seq) + 1 - i]]

\* part 003: void addTriangle(a, b, c): the transform, then the x, y, z of the
\* product as they are, with no test and no division
addTriangle003(s, tris, ia, ib, ic) ==
  LET a == MatVec(s.transform, ia)
      b == MatVec(s.transform, ib)
      c == MatVec(s.transform, ic)
  IN Append(tris, <<PlainVertex(FVec(a), s.fillColor), PlainVertex(FVec(b), s.fillColor),
                    PlainVertex(FVec(c), s.fillColor)>>)

----------------------------------------------------------------------------
(* rectangles and boxes *)

\* The operands of the overloaded operator| are evaluated in an order the
\* language leaves to the compiler: "ltr" is the written order, "rtl" the
\* opposite one, each used throughout a build.
EvalOrders == {"ltr", "rtl"}

\* one call addTriangle(color, ia, ib, ic, u1, v1, u2, v2, u3, v3)
TriangleCall(color, ia, ib, ic, uv) == [color |-> color, t |-> <<ia, ib, ic>>, uv |-> uv]

\* fill rectangle with the other diagonal: (a, b, d) and (b, c, d)
addFillRectangle_OtherDiagonal(s, a, b, c, d) ==
  <<TriangleCall(s.fillColor, a, b, d, <<F(0), F(0), HALF, F(0), F(0), HALF>>),
    TriangleCall(s.fillColor, b, c, d, <<HALF, F(0), HALF, HALF, F(0), HALF>>)>>

\* addFillRectangle(a, b, c, d): its two calls of addTriangle, as written
addFillRectangle(s, a, b, c, d) ==
  <<TriangleCall(s.fillColor, a, b, c, <<F(0), F(0), HALF, F(0), HALF, HALF>>),
    TriangleCall(s.fillColor, d, a, c, <<F(0), HALF, F(0), F(0), HALF, HALF>>)>>

\* addStrokeRectangle(a, b, c, d): its two calls of addTriangle, as written
addStrokeRectangle(s, a, b, c, d) ==
  <<TriangleCall(s.strokeColor, a, b, c, <<HALF, HALF, F(1), HALF, F(1), F(1)>>),
    TriangleCall(s.strokeColor, d, a, c, <<HALF, F(1), HALF, HALF, F(1), F(1)>>)>>

\* part 007: addRectangle(a, b, c, d): its two calls of addTriangle
addRectangle007(s, a, b, c, d) ==
  <<TriangleCall(s.fillColor, a, b, c, <<F(0), F(0), F(1), F(0), F(1), F(1)>>),
    TriangleCall(s.fillColor, d, a, c, <<F(0), F(1), F(0), F(0), F(1), F(1)>>)>>

\* addFillBox(p1 .. p8): the calls of its six rectangles, as written
addFillBox(s, p) ==
  addFillRectangle(s, p[1], p[2], p[3], p[4]) \o
  addFillRectangle(s, p[2], p[6], p[7], p[3]) \o
  addFillRectangle(s, p[6], p[5], p[8], p[7]) \o
  addFillRectangle(s, p[5], p[1], p[4], p[8]) \o
  addFillRectangle(s, p[5], p[6], p[2], p[1]) \o
  addFillRectangle(s, p[4], p[3], p[7], p[8])

\* addStrokeBox(p1 .. p8): the calls of its six rectangles, as written
addStrokeBox(s, p) ==
  addStrokeRectangle(s, p[1], p[2], p[3], p[4]) \o
  addStrokeRectangle(s, p[2], p[6], p[7], p[3]) \o
  addStrokeRectangle(s, p[6], p[5], p[8], p[7]) \o
  addStrokeRectangle(s, p[5], p[1], p[4], p[8]) \o
  addStrokeRectangle(s, p[5], p[6], p[2], p[1]) \o
  addStrokeRectangle(s, p[4], p[3], p[7], p[8])

\* The corners of addBox.  A point (x, y, z, 1) with x, y, z = +-0.5 is given
\* in homogeneous integers as (+-1, +-1, +-1, 2), and +-0.51 as
\* (+-51, +-51, +-51, 100): the transform is linear, so the sign of w and the
\* quotients x / w, y / w, z / w are those of the point itself.
BoxCorners(h, w) ==
  <<Vec(-h, h, h, w), Vec(h, h, h, w), Vec(h, -h, h, w), Vec(-h, -h, h, w),
    Vec(-h, h, -h, w), Vec(h, h, -h, w), Vec(h, -h, -h, w), Vec(-h, -h, -h, w)>>

\* addBox that emits the stroke layer whatever strokeColor.a is
addBox_AlwaysStroke(s) ==
  (IF s.fillColor.a = 0 THEN <<>> ELSE addFillBox(s, BoxCorners(1, 2))) \o
  addStrokeBox(s, BoxCorners(51, 100))

\* addBox(): the calls of addTriangle it makes, as written: the fill layer
\* unless fillColor.a == 0, then the stroke layer unless strokeColor.a == 0
addBox(s) ==
  (IF s.fillColor.a = 0 THEN <<>> ELSE addFillBox(s, BoxCorners(1, 2))) \o
  (IF s.strokeColor.a = 0 THEN <<>> ELSE addStrokeBox(s, BoxCorners(51, 100)))

\* part 007: addBox(): six calls of addRectangle
addBox007(s) ==
  addRectangle007(s, Vec(1, 1, 1, 2), Vec(-1, 1, 1, 2), Vec(-1, -1, 1, 2), Vec(1, -1, 1, 2)) \o
  addRectangle007(s, Vec(1, 1, -1, 2), Vec(1, -1, -1, 2), Vec(-1, -1, -1, 2), Vec(-1, 1, -1, 2)) \o
  addRectangle007(s, Vec(1, 1, 1, 2), Vec(1, 1, -1, 2), Vec(1, -1, -1, 2), Vec(1, -1, 1, 2)) \o
  addRectangle007(s, Vec(-1, 1, 1, 2), Vec(-1, 1, -1, 2), Vec(-1, -1, -1, 2), Vec(-1, -1, 1, 2)) \o
  addRectangle007(s, Vec(1, 1, 1, 2), Vec(1, 1, -1, 2), Vec(-1, 1, -1, 2), Vec(-1, 1, 1, 2)) \o
  addRectangle007(s, Vec(1, -1, 1, 2), Vec(1, -1, -1, 2), Vec(-1, -1, -1, 2), Vec(-1, -1, 1, 2))

\* the calls of addTriangle made one after the other: the batch at the end and
\* the value each call returned.  A run of calls is its first half followed,
\* on the batch that half leaves, by its second half.
RECURSIVE RunCalls(_, _, _)
RunCalls(s, tris, calls) ==
  IF calls = <<>> THEN [triangles |-> tris, rets |-> <<>>]
  ELSE IF Len(calls) = 1
  THEN LET c == calls[1]
           r == addTriangle(s, tris, c.color, c.t[1], c.t[2], c.t[3], c.uv)
       IN [triangles |-> r.triangles, rets |-> <<r.ret>>]
  ELSE LET h == Len(calls) \div 2
           first == RunCalls(s, tris, SubSeq(calls, 1, h))
       IN IF Len(first.triangles) >= Len(tris)
          THEN LET second == RunCalls(s, first.triangles, SubSeq(calls, h + 1, Len(calls)))
               IN [triangles |-> second.triangles, rets |-> first.rets \o second.rets]
          ELSE first

\* lhs | rhs | ... over the values returned, in the order written (std::min
\* and std::max of floats that are not NaN give the same whichever way the
\* expression is bracketed)
RECURSIVE UnionAll(_)
UnionAll(rets) ==
  IF rets = <<>> THEN AABB_BOTTOM
  ELSE IF Len(rets) = 1 THEN rets[1]
  ELSE LET h == Len(rets) \div 2
       IN Union(UnionAll(SubSeq(rets, 1, h)), UnionAll(SubSeq(rets, h + 1, Len(rets))))

\* an expression  call | call | ...  evaluated in the given order: the batch
\* at the end and the AABB the expression yields
EvalUnion(s, tris, calls, order) ==
  LET run == IF order = "ltr" THEN RunCalls(s, tris, calls)
             ELSE RunCalls(s, tris, Reverse(calls))
      rets == IF order = "ltr" THEN run.rets ELSE Reverse(run.rets)
  IN [triangles |-> run.triangles, ret |-> UnionAll(rets)]

\* part 007: the calls of the void addTriangle made one after the other
RECURSIVE RunCalls007(_, _, _)
RunCalls007(s, tris, calls) ==
  IF calls = <<>> THEN tris
  ELSE IF Len(calls) = 1
  THEN addTriangle007(s, tris, calls[1].t[1], calls[1].t[2], calls[1].t[3], calls[1].uv)
  ELSE LET h == Len(calls) \div 2
           first == RunCalls007(s, tris, SubSeq(calls, 1, h))
       IN IF Len(first) >= Len(tris)
          THEN RunCalls007(s, first, SubSeq(calls, h + 1, Len(calls)))
          ELSE first

----------------------------------------------------------------------------
(* flush *)

\* a vertex comparator that orders by (x, y, z)
VertexLess_XFirst(lhs, rhs) ==
  \/ Less(lhs.x, rhs.x)
  \/ /\ Same(lhs.x, rhs.x)
     /\ \/ Less(lhs.y, rhs.y)
        \/ Same(lhs.y, rhs.y) /\ Less(lhs.z, rhs.z)

\* the vertex comparator of flush: ascending (z, y, x)
VertexLess(lhs, rhs) ==
  \/ Less(lhs.z, rhs.z)
  \/ /\ Same(lhs.z, rhs.z)
     /\ \/ Less(lhs.y, rhs.y)
        \/ Same(lhs.y, rhs.y) /\ Less(lhs.x, rhs.x)

\* a triangle comparator that looks at the z of the vertices only
TriangleLess_ZOnly(lhs, rhs) ==
  LET dz == {i \in 1..3 : ~Same(lhs[i].z, rhs[i].z)}
      First(S) == CHOOSE i \in S : \A j \in S : i <= j
  IN IF dz # {} THEN Less(lhs[First(dz)].z, rhs[First(dz)].z) ELSE FALSE

\* the triangle comparator of flush: the first differing z of vertices 0, 1, 2
\* decides, then the first differing y, then the first differing x
TriangleLess(lhs, rhs) ==
  LET dz == {i \in 1..3 : ~Same(lhs[i].z, rhs[i].z)}
      dy == {i \in 1..3 : ~Same(lhs[i].y, rhs[i].y)}
      dx == {i \in 1..3 : ~Same(lhs[i].x, rhs[i].x)}
      First(S) == CHOOSE i \in S : \A j \in S : i <= j
  IN IF dz # {} THEN Less(lhs[First(dz)].z, rhs[First(dz)].z)
     ELSE IF dy # {} THEN Less(lhs[First(dy)].y, rhs[First(dy)].y)
     ELSE IF dx # {} THEN Less(lhs[First(dx)].x, rhs[First(dx)].x)
     ELSE FALSE

\* std::sort(first, last, comp): some rearrangement of the range in which no
\* element precedes one that comp puts before it; elements comp does not order
\* may come out in any order (the sort is not stable).  comp is given as the
\* set of pairs <<a, b>> of elements for which comp(a, b) is true.
SortOutcomes(seq, comp) ==
  LET n == Len(seq)
      Arranged == {[i \in 1..n |-> seq[p[i]]] : p \in Permutations(1..n)}
  IN {r \in Arranged : \A i, j \in 1..n : i < j => <<r[j], r[i]>> \notin comp}

\* the pairs of elements of seq that the comparators of flush put in order
VertexPairs(seq) ==
  {q \in {<<seq[i], seq[j]>> : i, j \in 1..Len(seq)} : VertexLess(q[1], q[2])}

TrianglePairs(seq) ==
  {q \in {<<seq[i], seq[j]>> : i, j \in 1..Len(seq)} : TriangleLess(q[1], q[2])}

\* a first loop of flush that sorts the coordinates of a triangle's vertices
\* and leaves their texture coordinates where they were
RECURSIVE VertexSortOutcomes_CoordinatesOnly(_)
VertexSortOutcomes_CoordinatesOnly(tris) ==
  IF tris = <<>> THEN {<<>>}
  ELSE {<<[i \in 1..3 |-> IF "u" \in DOMAIN h[i]
                          THEN [h[i] EXCEPT !.u = Head(tris)[i].u, !.v = Head(tris)[i].v]
                          ELSE [h[i] EXCEPT !.color = BLACK]]>> \o r :
          h \in SortOutcomes(Head(tris), VertexPairs(Head(tris))),
          r \in VertexSortOutcomes_CoordinatesOnly(Tail(tris))}

\* a flush without its first loop: the vertices stay as they were passed
VertexSortOutcomes_AsPassed(tris) == {tris}

\* the first loop of flush: every triangle's vertices sorted with VertexLess
RECURSIVE VertexSortOutcomes(_)
VertexSortOutcomes(tris) ==
  IF tris = <<>> THEN {<<>>}
  ELSE {<<h>> \o r : h \in SortOutcomes(Head(tris), VertexPairs(Head(tris))),
                     r \in VertexSortOutcomes(Tail(tris))}

RECURSIVE Flatten(_)
Flatten(tris) == IF tris = <<>> THEN <<>> ELSE Head(tris) \o Flatten(Tail(tris))

\* a draw call that passes triangles.size() as the vertex count
DrawCall_CountsTriangles(texture, uv, tris) ==
  [texture |-> texture, uv |-> uv, vertices |-> Flatten(tris),
   num_vertices |-> Len(tris), num_indices |-> 0]

\* SDL_RenderGeometryRaw(renderer, texture, &first.x, .., &first.color, ..,
\* &first.u | nullptr, .., 3 * triangles.size(), nullptr, 0, 0): the vertex
\* memory the pointers address, the vertex count, no index buffer
DrawCall(texture, uv, tris) ==
  [texture |-> texture, uv |-> uv, vertices |-> Flatten(tris),
   num_vertices |-> 3 * Len(tris), num_indices |-> 0]

\* the floats of a vertex as they lie in memory: x, y, z, color and, where
\* Vertex has them, u, v (the static_asserts on offsetof and sizeof)
Layout(vertex, uv) ==
  IF uv THEN <<vertex.x, vertex.y, vertex.z, vertex.color, vertex.u, vertex.v>>
  ELSE <<vertex.x, vertex.y, vertex.z, vertex.color>>

\* the memory the pointers of a draw call address
RECURSIVE Memory(_, _)
Memory(vertices, uv) ==
  IF vertices = <<>> THEN <<>>
  ELSE Layout(Head(vertices), uv) \o Memory(Tail(vertices), uv)

\* what the backend reads for vertex i, from 0: xy at &first.x, color at
\* &first.color, uv at &first.u, each with stride sizeof(Vertex)
Fetch(draw, i) ==
  LET stride == IF draw.uv THEN 6 ELSE 4
      mem == Memory(draw.vertices, draw.uv)
  IN [xy |-> <<mem[stride * i + 1], mem[stride * i + 2]>>,
      color |-> mem[stride * i + 4],
      uv |-> IF draw.uv THEN <<mem[stride * i + 5], mem[stride * i + 6]>> ELSE <<>>]

\* what the backend may answer: 0, or a negative error code
BackendStatus == {0, -1}

\* the part of every flush from the sorts on.  The result is the set of possible
\* outcomes: how the process goes on, the batch, the value returned (<<>> when
\* the call does not return or returns void), the draw calls.
\* flush() that does not look at what the draw call returned
SortAndDraw_IgnoresStatus(tris, rev, texture, uv) ==
  LET Sorted == UNION {SortOutcomes(vs, TrianglePairs(vs)) : vs \in VertexSortOutcomes(tris)}
      Ordered == IF rev THEN {Reverse(t) : t \in Sorted} ELSE Sorted
  IN {[status |-> "running", triangles |-> <<>>, ret |-> <<Len(t)>>,
       draws |-> <<DrawCall(texture, uv, t)>>, backend |-> <<st>>]
      : t \in Ordered, st \in BackendStatus}

\* flush() without triangles.clear()
SortAndDraw_KeepsBatch(tris, rev, texture, uv) ==
  LET Sorted == UNION {SortOutcomes(vs, TrianglePairs(vs)) : vs \in VertexSortOutcomes(tris)}
      Ordered == IF rev THEN {Reverse(t) : t \in Sorted} ELSE Sorted
  IN {[status |-> IF st # 0 THEN "sdlError" ELSE "running", triangles |-> t,
       ret |-> IF st # 0 THEN <<>> ELSE <<Len(t)>>,
       draws |-> <<DrawCall(texture, uv, t)>>, backend |-> <<st>>]
      : t \in Ordered, st \in BackendStatus}

\* the outcomes of flush() on a batch: what becomes of the process and of the
\* batch, the value returned, the draw calls made and what the backend
\* returned for each
SortAndDraw(tris, rev, texture, uv) ==
  LET Sorted == UNION {SortOutcomes(vs, TrianglePairs(vs)) : vs \in VertexSortOutcomes(tris)}
      Ordered == IF rev THEN {Reverse(t) : t \in Sorted} ELSE Sorted
  IN {IF st # 0
      THEN [status |-> "sdlError", triangles |-> t, ret |-> <<>>,
            draws |-> <<DrawCall(texture, uv, t)>>, backend |-> <<st>>]
      ELSE [status |-> "running", triangles |-> <<>>, ret |-> <<Len(t)>>,
            draws |-> <<DrawCall(texture, uv, t)>>, backend |-> <<st>>]
      : t \in Ordered, st \in BackendStatus}

\* triangles.front() of an empty vector is undefined: the build may die there,
\* or form some address and go on to the draw call with 0 vertices
FrontOfEmpty(tris, rev, texture, uv) ==
  {[status |-> "crash", triangles |-> tris, ret |-> <<>>, draws |-> <<>>,
    backend |-> <<>>]}
  \cup SortAndDraw(tris, rev, texture, uv)

\* part 008: std::size_t flush(), which returns 0 at once on an empty batch
flush(tris, rev) ==
  IF Len(tris) = 0
  THEN {[status |-> "running", triangles |-> tris, ret |-> <<0>>, draws |-> <<>>,
         backend |-> <<>>]}
  ELSE SortAndDraw(tris, rev, "boxTexture", TRUE)

\* part 007: std::size_t flush(), with no test of the batch and no reverse flag
flush007(tris) ==
  IF Len(tris) = 0
  THEN FrontOfEmpty(tris, FALSE, "boxTexture", TRUE)
  ELSE SortAndDraw(tris, FALSE, "boxTexture", TRUE)

\* part 002: void flush(), with no test of the batch, no texture and no uv
flush002(tris) ==
  {[o EXCEPT !.ret = <<>>] :
     o \in IF Len(tris) = 0
           THEN FrontOfEmpty(tris, FALSE, "nullptr", FALSE)
           ELSE SortAndDraw(tris, FALSE, "nullptr", FALSE)}

\* part 003: std::size_t flush(), with no test of the batch, no texture, no uv
flush003(tris) ==
  IF Len(tris) = 0
  THEN FrontOfEmpty(tris, FALSE, "nullptr", FALSE)
  ELSE SortAndDraw(tris, FALSE, "nullptr", FALSE)

----------------------------------------------------------------------------
(* The callers.  Any program built on this code calls the operations in some   *)
(* order; the arguments are drawn from the small sets below.                    *)

Variants == {"p008", "p007", "p002"}

\* perspective(TAU / 4, 1, 1, 3)
PERSPECTIVE == perspective(1, 1, 1, 3)

Matrices == {translation(-300, 0, 0), PERSPECTIVE}

FillColors == {WHITE, PEACH}

\* the uv arguments addFillRectangle passes for its first triangle
FillUV == <<F(0), F(0), HALF, F(0), HALF, HALF>>

\* input triangles: the one of the spec's scenario, one in front of the
\* PERSPECTIVE camera, one that straddles its plane
InputTriangles ==
  { <<Vec(100, 100, 5, 1), Vec(200, 100, 5, 1), Vec(150, 50, 5, 1)>>,
    <<Vec(100, 100, -5, 1), Vec(200, 100, -5, 1), Vec(150, 50, -5, 1)>>,
    <<Vec(100, 100, -5, 1), Vec(200, 100, 5, 1), Vec(150, 50, -2, 1)>> }

(* The demo programs.  main() of parts 008, 007 and 003 as the calls it     *)
(* makes on the renderer: <<l, op, m>> says that at line l the program may  *)
(* call op and is at line m afterwards.  A loop head or a branch has more   *)
(* than one entry.                                                          *)

Main008 ==
  { <<831, "keyP", 831>>, <<831, "keyR", 831>>,
    <<831, "fillColor", 833>>, <<833, "push", 837>>,
    <<837, "apply", 839>>, <<839, "apply", 852>>, <<852, "apply", 853>>,
    <<853, "apply", 861>>,
    <<861, "push", 863>>, <<863, "fillColor", 864>>, <<864, "strokeColor", 865>>,
    <<865, "apply", 866>>, <<866, "apply", 868>>, <<868, "addBox", 876>>,
    <<876, "pop", 861>>,
    <<861, "pop", 881>>,
    <<881, "fillColor", 885>>, <<885, "addFillRectangle", 892>>,
    <<881, "flush", 914>>, <<892, "flush", 914>>, <<914, "present", 831>> }

Main007 ==
  { <<641, "apply", 732>>, <<732, "keyP", 732>>,
    <<732, "fillColor", 734>>, <<734, "push", 736>>,
    <<736, "apply", 741>>, <<736, "push", 742>>, <<741, "push", 742>>,
    <<740, "push", 742>>, <<742, "fillColor", 743>>, <<743, "apply", 744>>,
    <<744, "apply", 745>>, <<745, "addBox", 746>>, <<746, "pop", 740>>,
    <<740, "pop", 751>>,
    <<751, "flush", 764>>, <<764, "present", 732>> }

Main003 ==
  { <<438, "apply", 454>>,
    <<454, "fillColor", 456>>, <<456, "push", 457>>, <<457, "apply", 463>>,
    <<463, "addTriangle", 467>>, <<467, "pop", 469>>,
    <<469, "flush", 470>>, <<470, "present", 454>> }

Main002 ==
  { <<198, "addTriangle", 204>>, <<204, "flush", 205>>, <<205, "present", 198>> }

Main(v) ==
  IF v = "p008" THEN Main008
  ELSE IF v = "p007" THEN Main007
  ELSE IF v = "p003" THEN Main003
  ELSE Main002

\* the line after the call of op at line `line`
Goto(line, op) ==
  IF line = 0 THEN 0
  ELSE (CHOOSE e \in Main(variant) : e[1] = line /\ e[2] = op)[3]

\* main() is at a call of op
At(op) == \E e \in Main(variant) : e[1] = pc /\ e[2] = op

\* the largest number of chunks the audio thread delivers
MaxChunks == 3

\* no callback has run
Silent ==
  [inserting |-> FALSE, touched |-> FALSE, delivered |-> 0,
   copies |-> [s \in 1..(MaxChunks + 1) |-> 0], garbage |-> FALSE]

InitAt(V, line) ==
  /\ variant \in V
  /\ pcm = <<>> /\ buffer = <<>> /\ audio = Silent
  /\ pc = line
  /\ perspectiveEnabled = TRUE
  /\ state = InitialState(variant)
  /\ stack = <<>>
  /\ triangles = <<>>
  /\ reverseSortTriangles = FALSE
  /\ status = "running"
  /\ call = [op |-> "init", arg |-> <<>>, ret |-> <<>>, draws |-> <<>>, prev |-> "init"]
  /\ before = [state |-> InitialState(variant), stack |-> <<>>, triangles |-> <<>>,
               saved |-> <<>>]
  /\ saved = <<>>
  /\ napply = 0

\* a program other than the demo loops: any call may follow any call
InitOf(V) == InitAt(V, 0)

Init == InitOf(Variants)

\* the history of a call: what was called with what, what it returned, the draw
\* calls it made, and the state it started from; and main()'s locals after it:
\* the line it is at and perspectiveEnabled, which only the P key changes
Called(op, arg, ret, draws) ==
  /\ UNCHANGED <<pcm, buffer, audio>>
  /\ pc' = Goto(pc, op)
  /\ perspectiveEnabled' = (IF op = "keyP" THEN ~perspectiveEnabled ELSE perspectiveEnabled)
  /\ call' = [op |-> op, arg |-> arg, ret |-> ret, draws |-> draws, prev |-> call.op]
  /\ before' = [state |-> state, stack |-> stack, triangles |-> triangles,
                saved |-> saved]

HasState == variant \in {"p008", "p007", "p003"}

PushCall ==
  /\ status = "running" /\ HasState
  /\ stack' = push(state, stack)
  /\ Called("push", <<>>, <<>>, <<>>)
  /\ saved' = Append(saved, state)
  /\ UNCHANGED <<variant, state, triangles, reverseSortTriangles, status, napply>>

Push == Len(stack) < MaxDepth /\ PushCall

Pop ==
  /\ status = "running" /\ HasState
  /\ LET r == pop(state, stack)
     IN /\ status' = r.status
        /\ state' = r.state
        /\ stack' = r.stack
  /\ Called("pop", <<>>, <<>>, <<>>)
  /\ saved' = (IF saved = <<>> THEN saved ELSE SubSeq(saved, 1, Len(saved) - 1))
  /\ UNCHANGED <<variant, triangles, reverseSortTriangles, napply>>

ApplyCall(matrix) ==
  /\ status = "running" /\ HasState
  /\ state' = apply(state, matrix)
  /\ napply' = (IF napply < MaxApply THEN napply + 1 ELSE napply)
  /\ Called("apply", matrix, <<>>, <<>>)
  /\ UNCHANGED <<variant, stack, triangles, reverseSortTriangles, status, saved>>

Apply(matrix) == napply < MaxApply /\ ApplyCall(matrix)

\* state.fillColor = color;
SetFillColor(color) ==
  /\ status = "running" /\ HasState
  /\ state' = [state EXCEPT !.fillColor = color]
  /\ Called("fillColor", color, <<>>, <<>>)
  /\ UNCHANGED <<variant, stack, triangles, reverseSortTriangles, status, saved, napply>>

\* state.strokeColor = color;
SetStrokeColor(color) ==
  /\ status = "running" /\ variant = "p008"
  /\ state' = [state EXCEPT !.strokeColor = color]
  /\ Called("strokeColor", color, <<>>, <<>>)
  /\ UNCHANGED <<variant, stack, triangles, reverseSortTriangles, status, saved, napply>>

\* reverseSortTriangles = !perspectiveEnabled;
SetReverse(b) ==
  /\ status = "running" /\ variant = "p008"
  /\ reverseSortTriangles' = b
  /\ Called("reverse", b, <<>>, <<>>)
  /\ UNCHANGED <<variant, state, stack, triangles, status, saved, napply>>

AddTriangle(color, t) ==
  /\ status = "running" /\ variant = "p008"
  /\ Len(triangles) < MaxBatch
  /\ LET r == addTriangle(state, triangles, color, t[1], t[2], t[3], FillUV)
     IN /\ triangles' = r.triangles
        /\ Called("addTriangle", [color |-> color, t |-> t, uv |-> FillUV], <<r.ret>>, <<>>)
  /\ UNCHANGED <<variant, state, stack, reverseSortTriangles, status, saved, napply>>

AddTriangle007(t) ==
  /\ status = "running" /\ variant = "p007"
  /\ Len(triangles) < MaxBatch
  /\ triangles' = addTriangle007(state, triangles, t[1], t[2], t[3], FillUV)
  /\ Called("addTriangle", [color |-> state.fillColor, t |-> t, uv |-> FillUV], <<>>, <<>>)
  /\ UNCHANGED <<variant, state, stack, reverseSortTriangles, status, saved, napply>>

AddTriangle002(color, t) ==
  /\ status = "running" /\ variant = "p002"
  /\ Len(triangles) < MaxBatch
  /\ triangles' = addTriangle002(triangles, color, t[1], t[2], t[3])
  /\ Called("addTriangle", [color |-> color, t |-> t], <<>>, <<>>)
  /\ UNCHANGED <<variant, state, stack, reverseSortTriangles, status, saved, napply>>

AddTriangle003(t) ==
  /\ status = "running" /\ variant = "p003"
  /\ Len(triangles) < MaxBatch
  /\ triangles' = addTriangle003(state, triangles, t[1], t[2], t[3])
  /\ Called("addTriangle", [color |-> state.fillColor, t |-> t], <<>>, <<>>)
  /\ UNCHANGED <<variant, state, stack, reverseSortTriangles, status, saved, napply>>

\* a flush that ends in one of the outcomes O
Flushed(O) ==
  \E o \in O :
    /\ status' = o.status
    /\ triangles' = o.triangles
    /\ Called("flush", o.backend, o.ret, o.draws)
    /\ UNCHANGED <<variant, state, stack, reverseSortTriangles, saved, napply>>

Flush == status = "running" /\ variant = "p008" /\ Flushed(flush(triangles, reverseSortTriangles))

Flush007 == status = "running" /\ variant = "p007" /\ Flushed(flush007(triangles))

Flush002 == status = "running" /\ variant = "p002" /\ Flushed(flush002(triangles))

\* a shape helper that leaves the stroke color in state.fillColor
ShapeCall_LeavesColor(op, arg, calls, order) ==
  /\ status = "running" /\ variant = "p008"
  /\ LET r == EvalUnion(state, triangles, calls, order)
     IN /\ triangles' = r.triangles
        /\ Called(op, [q |-> arg, order |-> order], <<r.ret>>, <<>>)
  /\ state' = [state EXCEPT !.fillColor = state.strokeColor]
  /\ UNCHANGED <<variant, stack, reverseSortTriangles, status, saved, napply>>

\* a call of a shape helper of part 008, whose operands are evaluated in `order`
ShapeCall(op, arg, calls, order) ==
  /\ status = "running" /\ variant = "p008"
  /\ LET r == EvalUnion(state, triangles, calls, order)
     IN /\ triangles' = r.triangles
        /\ Called(op, [q |-> arg, order |-> order], <<r.ret>>, <<>>)
  /\ UNCHANGED <<variant, state, stack, reverseSortTriangles, status, saved, napply>>

\* the same on an empty batch
AddShape(op, arg, calls, order) == triangles = <<>> /\ ShapeCall(op, arg, calls, order)

AddFillRectangle(q, order) ==
  AddShape("addFillRectangle", q, addFillRectangle(state, q[1], q[2], q[3], q[4]), order)

AddStrokeRectangle(q, order) ==
  AddShape("addStrokeRectangle", q, addStrokeRectangle(state, q[1], q[2], q[3], q[4]), order)

AddBox(order) == AddShape("addBox", <<>>, addBox(state), order)

\* a call of a shape helper of part 007
ShapeCall007(op, arg, calls) ==
  /\ status = "running" /\ variant = "p007"
  /\ triangles' = RunCalls007(state, triangles, calls)
  /\ Called(op, [q |-> arg, order |-> "ltr"], <<>>, <<>>)
  /\ UNCHANGED <<variant, state, stack, reverseSortTriangles, status, saved, napply>>

AddShape007(op, arg, calls) == triangles = <<>> /\ ShapeCall007(op, arg, calls)

AddRectangle007(q) ==
  AddShape007("addRectangle", q, addRectangle007(state, q[1], q[2], q[3], q[4]))

AddBox007 == AddShape007("addBox", <<>>, addBox007(state))

Flush003 == status = "running" /\ variant = "p003" /\ Flushed(flush003(triangles))

\* a P key that toggles perspectiveEnabled and leaves reverseSortTriangles
KeyP_KeepsFlag ==
  /\ status = "running" /\ variant = "p008"
  /\ Called("keyP", <<>>, <<>>, <<>>)
  /\ UNCHANGED <<variant, state, stack, triangles, reverseSortTriangles, status, saved,
                 napply>>

\* part 008, case SDL_SCANCODE_P: perspectiveEnabled = !perspectiveEnabled;
\* reverseSortTriangles = !perspectiveEnabled;
KeyP ==
  /\ status = "running" /\ variant = "p008"
  /\ reverseSortTriangles' = perspectiveEnabled
  /\ Called("keyP", <<>>, <<>>, <<>>)
  /\ UNCHANGED <<variant, state, stack, triangles, status, saved, napply>>

\* part 007, case SDL_SCANCODE_P: perspectiveEnabled = !perspectiveEnabled;
KeyP007 ==
  /\ status = "running" /\ variant = "p007"
  /\ Called("keyP", <<>>, <<>>, <<>>)
  /\ UNCHANGED <<variant, state, stack, triangles, reverseSortTriangles, status, saved,
                 napply>>

\* part 008, case SDL_SCANCODE_R: the camera and the boxes are reset; neither
\* flag nor the renderer's state is touched
KeyR ==
  /\ status = "running" /\ variant = "p008"
  /\ Called("keyR", <<>>, <<>>, <<>>)
  /\ UNCHANGED <<variant, state, stack, triangles, reverseSortTriangles, status, saved,
                 napply>>

\* SDL_RenderPresent(renderer): the frame is shown; nothing of the renderer's
\* state changes
Present ==
  /\ status = "running"
  /\ Called("present", <<>>, <<>>, <<>>)
  /\ UNCHANGED <<variant, state, stack, triangles, reverseSortTriangles, status, saved,
                 napply>>

----------------------------------------------------------------------------
(* Spec: programs that color, submit and flush in any order, and that leave  *)
(* the identity transform at most once                                       *)

Next ==
  \/ state.transform = IDENTITY /\ \E m \in Matrices : Apply(m)
  \/ \E c \in FillColors : SetFillColor(c)
  \/ \E b \in BOOLEAN : SetReverse(b)
  \/ variant = "p008" /\ \E c \in {state.fillColor, state.strokeColor}, t \in InputTriangles :
                            AddTriangle(c, t)
  \/ \E t \in InputTriangles : AddTriangle007(t)
  \/ \E c \in FillColors, t \in InputTriangles : AddTriangle002(c, t)
  \/ Flush
  \/ Flush007
  \/ Flush002

Spec == Init /\ [][Next]_vars

----------------------------------------------------------------------------
(* SpecState: programs of part 008 that work the RenderState stack; they may  *)
(* submit one triangle first, so that the batch is not empty                  *)

InitState == Init /\ variant = "p008"

SubmitFirst ==
  /\ call.op = "init"
  /\ AddTriangle(state.fillColor, <<Vec(100, 100, 5, 1), Vec(200, 100, 5, 1), Vec(150, 50, 5, 1)>>)

NextState ==
  \/ SubmitFirst
  \/ Push
  \/ Pop
  \/ \E m \in Matrices : Apply(m)
  \/ SetFillColor(PEACH)
  \/ SetStrokeColor(TRANSPARENT)

SpecState == InitState /\ [][NextState]_vars

----------------------------------------------------------------------------
(* SpecGeom: programs of parts 008 and 007 that apply at most one matrix and  *)
(* then submit one triangle, with corners drawn from a grid around the screen *)

\* the screen's edges and the pixels just outside them
GridX == {-1, 0, WIDTH, WIDTH + 1}
GridY == {-1, 0, HEIGHT, HEIGHT + 1}

GeomVertices ==
  {Vec(x, y, 5, 1) : x \in GridX, y \in GridY}
  \cup {Vec(-1000, -1000, -1, 1), Vec(2000, -1000, -1, 1), Vec(400, 3000, -1, 1)}
  \cup {Vec(100, 100, 5, 0), Vec(100, 100, 5, -1), Vec(1601, 1201, -2, 2)}

InitGeom == Init /\ variant \in {"p008", "p007"}

GeomApply == call.op = "init" /\ \E m \in Matrices : Apply(m)

GeomSubmit ==
  /\ call.op \in {"init", "apply"}
  /\ \E a, b, c \in GeomVertices :
       \/ AddTriangle(state.fillColor, <<a, b, c>>)
       \/ AddTriangle007(<<a, b, c>>)

NextGeom == GeomApply \/ GeomSubmit

SpecGeom == InitGeom /\ [][NextGeom]_vars

----------------------------------------------------------------------------
(* SpecShape: programs of parts 008 and 007 that set the colors, leave the    *)
(* identity transform at most once and submit a rectangle or a box into the  *)
(* empty batch                                                                *)

ShapeMatrices == {translation(100, 100, 0), translation(-300, 0, 0), PERSPECTIVE}

\* quads a, b, c, d: one on the screen, the front face of the unit box, one
\* in front of the PERSPECTIVE camera, one whose triangle (d, a, c) is left of
\* the screen
Quads ==
  { <<Vec(100, 100, 5, 1), Vec(200, 100, 5, 1), Vec(200, 200, 5, 1), Vec(100, 200, 5, 1)>>,
    <<Vec(-1, 1, 1, 2), Vec(1, 1, 1, 2), Vec(1, -1, 1, 2), Vec(-1, -1, 1, 2)>>,
    <<Vec(100, 100, -5, 1), Vec(200, 100, -5, 1), Vec(200, 200, -5, 1), Vec(100, 200, -5, 1)>>,
    <<Vec(-101, 100, 5, 1), Vec(50, 100, 5, 1), Vec(-101, 200, 5, 1), Vec(-150, 200, 5, 1)>> }

InitShape == Init /\ variant \in {"p008", "p007"}

NextShape ==
  \/ state.transform = IDENTITY /\ \E m \in ShapeMatrices : Apply(m)
  \/ \E c \in {PEACH, TRANSPARENT} : SetFillColor(c)
  \/ \E c \in {BLACK, TRANSPARENT} : SetStrokeColor(c)
  \/ \E q \in Quads, o \in EvalOrders : AddFillRectangle(q, o)
  \/ \E q \in Quads, o \in EvalOrders : AddStrokeRectangle(q, o)
  \/ \E o \in EvalOrders : AddBox(o)
  \/ \E q \in Quads : AddRectangle007(q)
  \/ AddBox007

SpecShape == InitShape /\ [][NextShape]_vars

----------------------------------------------------------------------------
(* SpecSort: programs that submit triangles in screen space, set the reverse  *)
(* flag and flush                                                             *)

\* the triangle of the spec's scenario; the same 20 further down; the same 10
\* further right; one with three different z; one nearer
SortTriangles ==
  { <<Vec(100, 100, 5, 1), Vec(200, 100, 5, 1), Vec(150, 50, 5, 1)>>,
    <<Vec(100, 120, 5, 1), Vec(200, 120, 5, 1), Vec(150, 70, 5, 1)>>,
    <<Vec(110, 100, 5, 1), Vec(210, 100, 5, 1), Vec(160, 50, 5, 1)>>,
    <<Vec(100, 100, -5, 1), Vec(200, 100, 5, 1), Vec(150, 50, -2, 1)>>,
    <<Vec(100, 100, -5, 1), Vec(200, 100, -5, 1), Vec(150, 50, -5, 1)>> }

NextSort ==
  \/ \E b \in BOOLEAN : SetReverse(b)
  \/ \E t \in SortTriangles : AddTriangle(state.fillColor, t)
  \/ \E t \in SortTriangles : AddTriangle007(t)
  \/ \E t \in SortTriangles : AddTriangle002(WHITE, t)
  \/ Flush
  \/ Flush007
  \/ Flush002

SpecSort == Init /\ [][NextSort]_vars

----------------------------------------------------------------------------
(* SpecBatch: programs of parts 008, 007 and 003 that leave the identity      *)
(* transform at most once, submit triangles and flush                         *)

\* the input triangles, one given in homogeneous coordinates with w = 2 and
\* one with a vertex of w = 0
BatchTriangles ==
  InputTriangles \cup
  { <<Vec(200, 200, 10, 2), Vec(400, 200, 10, 2), Vec(300, 100, 10, 2)>>,
    <<Vec(100, 100, 5, 1), Vec(200, 100, 5, 0), Vec(150, 50, 5, 1)>> }

InitBatch == InitOf({"p008", "p007", "p003"})

NextBatch ==
  \/ state.transform = IDENTITY /\ \E m \in Matrices : Apply(m)
  \/ \E t \in BatchTriangles : AddTriangle(state.fillColor, t)
  \/ \E t \in BatchTriangles : AddTriangle007(t)
  \/ \E t \in BatchTriangles : AddTriangle003(t)
  \/ Flush
  \/ Flush007
  \/ Flush003

SpecBatch == InitBatch /\ [][NextBatch]_vars

----------------------------------------------------------------------------
(* SpecFrame: the demo programs, frame after frame.  The matrices that main() *)
(* computes from angles and from the clock are replaced by matrices with      *)
(* integer entries of the same kind; viewport() is the one of the source.     *)
(* A frame draws boxes until one of them is in view.                          *)

viewport(width, height) ==
  Mat(Vec(width \div 2, 0, 0, width \div 2),
      Vec(0, -(height \div 2), 0, height \div 2),
      Vec(0, 0, -1, 0),
      Vec(0, 0, 0, 1))

\* zRotation(TAU / 4)
QUARTER == Mat(Vec(0, -1, 0, 0), Vec(1, 0, 0, 0), Vec(0, 0, 1, 0), Vec(0, 0, 0, 1))

\* where the boxes of the demo are: left of the screen, or at the camera with
\* one face in front of it when the projection is in perspective
BoxPositions ==
  IF state.transform.w.z = 0 THEN {translation(-3, 0, 0)}
  ELSE {translation(0, 0, 0), translation(-3, 0, 0)}

\* the matrices main() may pass to apply() at a line
FrameMatrices(line) ==
  IF line \in {837, 641, 438} THEN {viewport(WIDTH, HEIGHT)}
  ELSE IF line = 839
       THEN {IF perspectiveEnabled THEN PERSPECTIVE ELSE scaling(1, 1, 1)}
  ELSE IF line = 736 THEN {PERSPECTIVE}
  ELSE IF line = 852 THEN {scaling(1, 1, 1)}
  ELSE IF line = 853 THEN {IDENTITY}
  ELSE IF line \in {865, 743} THEN BoxPositions
  ELSE {IDENTITY, QUARTER}

\* the colors main() may assign to state.fillColor at a line
FrameColors(line) ==
  IF line \in {831, 732, 454} THEN {PEACH}
  ELSE IF line = 881 THEN {WHITE}
  ELSE {PEACH, TRANSPARENT}

\* the triangle of part 003's demo, with 1 for 0.33 and 0.5
DemoTriangle == <<Vec(-1, -1, 0, 1), Vec(0, 1, 0, 1), Vec(1, -1, 0, 1)>>

\* the triangle of part 002's demo, with WIDTH / 3 and 2 * WIDTH / 3 rounded
DemoTriangle002 == <<Vec(267, 400, 0, 1), Vec(400, 200, 0, 1), Vec(533, 400, 0, 1)>>

\* the rectangle part 008 highlights the hovered box with
Highlight ==
  <<Vec(100, 100, 5, 1), Vec(200, 100, 5, 1), Vec(200, 200, 5, 1), Vec(100, 200, 5, 1)>>

InitFrame ==
  \/ InitAt({"p008"}, 831)
  \/ InitAt({"p007"}, 641)
  \/ InitAt({"p003"}, 438)
  \/ InitAt({"p002"}, 198)

NextFrame ==
  \/ At("keyP") /\ KeyP
  \/ At("keyP") /\ KeyP007
  \/ At("keyR") /\ KeyR
  \/ At("fillColor") /\ \E c \in FrameColors(pc) : SetFillColor(c)
  \/ At("strokeColor") /\ \E c \in {BLACK, TRANSPARENT} : SetStrokeColor(c)
  \/ /\ At("push") /\ (call.op = "pop" => triangles = <<>>)
     /\ pc = 736 => ~perspectiveEnabled
     /\ PushCall
  \/ At("pop") /\ Pop
  \/ /\ At("apply") /\ (pc = 736 => perspectiveEnabled)
     /\ \E m \in FrameMatrices(pc) : ApplyCall(m)
  \/ At("addBox") /\ \E order \in EvalOrders : ShapeCall("addBox", <<>>, addBox(state), order)
  \/ At("addBox") /\ ShapeCall007("addBox", <<>>, addBox007(state))
  \/ /\ At("addFillRectangle")
     /\ \E order \in EvalOrders :
          ShapeCall("addFillRectangle", Highlight,
                    addFillRectangle(state, Highlight[1], Highlight[2], Highlight[3],
                                     Highlight[4]), order)
  \/ At("addTriangle") /\ AddTriangle003(DemoTriangle)
  \/ At("addTriangle") /\ AddTriangle002(PEACH, DemoTriangle002)
  \/ At("flush") /\ Flush
  \/ At("flush") /\ Flush007
  \/ At("flush") /\ Flush003
  \/ At("flush") /\ Flush002
  \/ At("present") /\ Present

SpecFrame == InitFrame /\ [][NextFrame]_vars

----------------------------------------------------------------------------
(* SpecMatrix: operator* on matrices.  The transform starts as any matrix of *)
(* a bounded set and any matrix of the set is applied to it once.  The       *)
(* entries are small integers, so that the entries of a product of three     *)
(* matrices are below 2^24 and float arithmetic is exact on them.            *)

Axes == {"x", "y", "z", "w"}

\* the matrix with 1 in row r, column c and 0 elsewhere
Unit(r, c) ==
  LET row(a) == Vec(IF a = r /\ c = "x" THEN 1 ELSE 0, IF a = r /\ c = "y" THEN 1 ELSE 0,
                    IF a = r /\ c = "z" THEN 1 ELSE 0, IF a = r /\ c = "w" THEN 1 ELSE 0)
  IN Mat(row("x"), row("y"), row("z"), row("w"))

MatrixDomain ==
  {Unit(r, c) : r \in Axes, c \in Axes} \cup
  { IDENTITY, translation(1, 2, 3), translation(-3, 0, 0), scaling(2, 3, 4),
    scaling(0, 0, 0), PERSPECTIVE, QUARTER,
    Mat(Vec(1, -2, 3, -4), Vec(5, 6, -7, 8), Vec(-9, 10, 11, 12), Vec(13, -14, 15, 16)) }

\* part 008 with a matrix of the domain for its transform
InitMatrix ==
  \E m \in MatrixDomain :
    /\ variant = "p008"
    /\ pcm = <<>> /\ buffer = <<>> /\ audio = Silent
    /\ pc = 0
    /\ perspectiveEnabled = TRUE
    /\ state = [InitialState("p008") EXCEPT !.transform = m]
    /\ stack = <<>>
    /\ triangles = <<>>
    /\ reverseSortTriangles = FALSE
    /\ status = "running"
    /\ call = [op |-> "init", arg |-> <<>>, ret |-> <<>>, draws |-> <<>>, prev |-> "init"]
    /\ before = [state |-> [InitialState("p008") EXCEPT !.transform = m], stack |-> <<>>,
                 triangles |-> <<>>, saved |-> <<>>]
    /\ saved = <<>>
    /\ napply = 0

NextMatrix == call.op = "init" /\ \E m \in MatrixDomain : ApplyCall(m)

SpecMatrix == InitMatrix /\ [][NextMatrix]_vars

----------------------------------------------------------------------------
(* SpecAABB: operator| and operator& on bounding boxes.  The program holds a  *)
(* box of a bounded set and joins or meets it with a box of the set, twice.   *)
(* The box it holds is the value of the last call.                            *)

Box(lo, hi) == [min |-> FVec(lo), max |-> FVec(hi)]

\* boxes that overlap, nest, touch, are apart, one that is empty, one that
\* reaches to infinity, and one with a coordinate that is not a number
AABBDomain ==
  { AABB_BOTTOM, AABB_TOP,
    Box(Vec(0, 0, 0, 1), Vec(4, 4, 4, 1)),
    Box(Vec(1, 1, 1, 1), Vec(2, 2, 2, 1)),
    Box(Vec(2, -3, 0, 1), Vec(6, 2, 4, 1)),
    Box(Vec(4, 4, 4, 1), Vec(5, 5, 5, 1)),
    Box(Vec(-9, -9, -9, 1), Vec(-7, -8, -9, 1)),
    Box(Vec(3, 3, 3, 1), Vec(1, 1, 1, 1)),
    [Box(Vec(0, 0, 0, 1), Vec(4, 4, 4, 1)) EXCEPT !.max.x = INFINITY, !.min.y = NegINFINITY],
    [Box(Vec(1, 1, 1, 1), Vec(2, 2, 2, 1)) EXCEPT !.min.x = NaN, !.max.z = NaN] }

InitAABB ==
  \E b \in AABBDomain :
    /\ variant = "p008"
    /\ pcm = <<>> /\ buffer = <<>> /\ audio = Silent
    /\ pc = 0
    /\ perspectiveEnabled = TRUE
    /\ state = InitialState("p008")
    /\ stack = <<>>
    /\ triangles = <<>>
    /\ reverseSortTriangles = FALSE
    /\ status = "running"
    /\ call = [op |-> "init", arg |-> <<>>, ret |-> <<b>>, draws |-> <<>>, prev |-> "init"]
    /\ before = [state |-> InitialState("p008"), stack |-> <<>>, triangles |-> <<>>,
                 saved |-> <<>>]
    /\ saved = <<>>
    /\ napply = 0

\* lhs | rhs
Or(lhs, rhs) ==
  /\ status = "running" /\ variant = "p008"
  /\ Called("|", <<lhs, rhs>>, <<Union(lhs, rhs)>>, <<>>)
  /\ UNCHANGED <<variant, state, stack, triangles, reverseSortTriangles, status, saved,
                 napply>>

\* lhs & rhs
And(lhs, rhs) ==
  /\ status = "running" /\ variant = "p008"
  /\ Called("&", <<lhs, rhs>>, <<Intersection(lhs, rhs)>>, <<>>)
  /\ UNCHANGED <<variant, state, stack, triangles, reverseSortTriangles, status, saved,
                 napply>>

NextAABB ==
  \/ call.prev = "init" /\ \E b \in AABBDomain : Or(call.ret[1], b)
  \/ call.prev = "init" /\ \E b \in AABBDomain : Or(b, call.ret[1])
  \/ call.prev = "init" /\ \E b \in AABBDomain : And(call.ret[1], b)
  \/ call.prev = "init" /\ \E b \in AABBDomain : And(b, call.ret[1])

SpecAABB == InitAABB /\ [][NextAABB]_vars

----------------------------------------------------------------------------
(* SpecMixed: programs that save, restore, transform, color, submit and     *)
(* flush in any order, in parts 008, 007 and 002, with one state saved at    *)
(* most and each change of the state made once until it is restored          *)

\* one triangle that stays on screen under MixedMatrix and one left of it
MixedTriangles ==
  { <<Vec(100, 100, 5, 1), Vec(200, 100, 5, 1), Vec(150, 50, 5, 1)>>,
    <<Vec(-300, 100, 5, 1), Vec(-200, 100, 5, 1), Vec(-250, 50, 5, 1)>> }

MixedMatrix == translation(100, 100, 0)

InitMixed == InitOf({"p008", "p007", "p002"})

NextMixed ==
  \/ stack = <<>> /\ PushCall
  \/ Pop
  \/ state.transform = IDENTITY /\ ApplyCall(MixedMatrix)
  \/ state.fillColor = WHITE /\ SetFillColor(PEACH)
  \/ variant = "p008" /\ state.strokeColor = BLACK /\ SetStrokeColor(TRANSPARENT)
  \/ \E t \in MixedTriangles : AddTriangle(state.fillColor, t)
  \/ \E t \in MixedTriangles : AddTriangle007(t)
  \/ \E t \in MixedTriangles : AddTriangle002(state.fillColor, t)
  \/ Flush
  \/ Flush007
  \/ Flush002

SpecMixed == InitMixed /\ [][NextMixed]_vars

----------------------------------------------------------------------------
(* SpecSubmit: programs of parts 008 and 007 that save the state, change the  *)
(* transform and the colors, and then submit triangles, rectangles and        *)
(* boxes, some in view and some not, into the empty batch or after a triangle *)

InitSubmit == InitOf({"p008", "p007"})

\* one triangle that stays on screen under each translation of ShapeMatrices
\* and one left of the screen under each
SubmitTriangles ==
  { <<Vec(400, 100, 5, 1), Vec(500, 100, 5, 1), Vec(450, 50, 5, 1)>>,
    <<Vec(-300, 100, 5, 1), Vec(-200, 100, 5, 1), Vec(-250, 50, 5, 1)>> }

\* a quad on the screen under the identity and one with the triangle (d, a, c)
\* left of it
SubmitQuads ==
  { <<Vec(100, 100, 5, 1), Vec(200, 100, 5, 1), Vec(200, 200, 5, 1), Vec(100, 200, 5, 1)>>,
    <<Vec(-101, 100, 5, 1), Vec(50, 100, 5, 1), Vec(-101, 200, 5, 1), Vec(-150, 200, 5, 1)>> }

\* the transforms of the submissions
SubmitMatrices == {translation(100, 100, 0), translation(-300, 0, 0)}

\* any submission
Submit ==
  \/ \E t \in SubmitTriangles : AddTriangle(state.fillColor, t)
  \/ \E t \in SubmitTriangles : AddTriangle007(t)
  \/ \E q \in SubmitQuads, o \in EvalOrders :
       ShapeCall("addFillRectangle", q, addFillRectangle(state, q[1], q[2], q[3], q[4]), o)
  \/ \E q \in SubmitQuads, o \in EvalOrders :
       ShapeCall("addStrokeRectangle", q,
                 addStrokeRectangle(state, q[1], q[2], q[3], q[4]), o)
  \/ \E o \in EvalOrders : ShapeCall("addBox", <<>>, addBox(state), o)
  \/ \E q \in SubmitQuads :
       ShapeCall007("addRectangle", q, addRectangle007(state, q[1], q[2], q[3], q[4]))
  \/ ShapeCall007("addBox", <<>>, addBox007(state))

\* the calls that set the state up
SetUpCalls == {"init", "push", "apply", "fillColor", "strokeColor"}

\* a call that sets the state up
SetUp ==
  \/ stack = <<>> /\ PushCall
  \/ state.transform = IDENTITY /\ \E m \in SubmitMatrices : ApplyCall(m)
  \/ state.fillColor = WHITE /\ SetFillColor(PEACH)
  \/ variant = "p008" /\ state.strokeColor = BLACK /\ SetStrokeColor(TRANSPARENT)

\* the state is set up, then a submission is made, and one more if the first
\* was a triangle
NextSubmit ==
  \/ call.op \in SetUpCalls /\ SetUp
  \/ /\ call.op \in SetUpCalls \/ (call.op = "addTriangle" /\ call.prev \in SetUpCalls)
     /\ Submit

SpecSubmit == InitSubmit /\ [][NextSubmit]_vars

----------------------------------------------------------------------------
(* SpecOrder: programs of part 008 that set the reverse flag, submit the same *)
(* triangles with their vertices in different orders, and flush               *)

\* the triangle t with its vertices passed in each order
Orderings(t) == {<<t[p[1]], t[p[2]], t[p[3]]>> : p \in Permutations(1..3)}

\* a triangle at one depth in its six orderings and a triangle across three
\* depths in two
OrderTriangles ==
  Orderings(<<Vec(100, 100, 5, 1), Vec(200, 100, 5, 1), Vec(150, 50, 5, 1)>>) \cup
  { <<Vec(100, 100, -5, 1), Vec(200, 100, 5, 1), Vec(150, 50, -2, 1)>>,
    <<Vec(200, 100, 5, 1), Vec(150, 50, -2, 1), Vec(100, 100, -5, 1)>> }

InitOrder == InitOf({"p008"})

NextOrder ==
  \/ triangles = <<>> /\ \E b \in BOOLEAN : SetReverse(b)
  \/ \E t \in OrderTriangles : AddTriangle(state.fillColor, t)
  \/ Flush

SpecOrder == InitOrder /\ [][NextOrder]_vars

----------------------------------------------------------------------------
(* SpecAudio: the FFT visualizers.  The callback runs on the audio thread of   *)
(* SDL, main() on its own; the SDL_LockAudio() and SDL_UnlockAudio() around    *)
(* the drain are commented out, so a statement of either thread may run       *)
(* between any two of the other.  pcm is counted in chunks: a callback        *)
(* appends CHUNK_SIZE samples, chunk number n being the n-th one delivered     *)
(* and chunk number 0 standing for samples no callback delivered.              *)
(* An access of main() to pcm while the callback's insert is under way is a   *)
(* data race, whose outcomes are those of a vector read or cleared while it    *)
(* is grown: the old or the new size, the old elements or what the storage     *)
(* holds, an append that is kept or undone, or the end of the process.         *)

AudioVariants == {"fftPlayer", "fftRecorder"}

\* the lines of main() with the test of pcm.size(), buffer.clear(),
\* buffer.insert() and pcm.clear(): audiovisual-fft/c001.cc and part_004
DrainLines == IF variant = "fftPlayer" THEN <<157, 158, 160, 161>>
              ELSE <<165, 166, 168, 169>>

\* what the audio programs do not have
renderer == <<state, stack, triangles, reverseSortTriangles, call, before, saved, napply,
              perspectiveEnabled>>

\* one more copy of a chunk into buffer, counted up to "more than once"
Copied(copies, read) ==
  [s \in DOMAIN copies |->
     IF \E i \in 1..Len(read) : read[i] = s
     THEN (IF copies[s] = 0 THEN 1 ELSE 2) ELSE copies[s]]

\* the callback is entered: pcmPtr->insert(pcmPtr->end(), ptr, ptr + count)
\* begins
CallbackBegins ==
  /\ status = "running" /\ variant \in AudioVariants
  /\ ~audio.inserting /\ audio.delivered < MaxChunks
  /\ audio' = [audio EXCEPT !.inserting = TRUE, !.touched = FALSE]
  /\ UNCHANGED <<variant, status, pc, pcm, buffer, renderer>>

\* the insert ends and the callback returns
CallbackEnds ==
  /\ status = "running" /\ variant \in AudioVariants
  /\ audio.inserting
  /\ \E outcome \in (IF audio.touched THEN {"appended", "undone", "crash"}
                      ELSE {"appended"}) :
       /\ pcm' = (IF outcome = "appended" THEN Append(pcm, audio.delivered + 1) ELSE pcm)
       /\ status' = (IF outcome = "crash" THEN "crash" ELSE status)
  /\ audio' = [audio EXCEPT !.inserting = FALSE, !.delivered = @ + 1]
  /\ UNCHANGED <<variant, pc, buffer, renderer>>

\* if (pcm.size() >= CHUNK_SIZE); otherwise the frame is drawn and the loop
\* comes back to the test
SizeCheck ==
  /\ status = "running" /\ variant \in AudioVariants
  /\ pc = DrainLines[1]
  /\ \E size \in (IF audio.inserting THEN {Len(pcm), Len(pcm) + 1} ELSE {Len(pcm)}) :
       pc' = (IF size > 0 THEN DrainLines[2] ELSE pc)
  /\ UNCHANGED <<variant, status, pcm, buffer, audio, renderer>>

\* buffer.clear();
ClearBuffer ==
  /\ status = "running" /\ variant \in AudioVariants
  /\ pc = DrainLines[2]
  /\ buffer' = <<>>
  /\ pc' = DrainLines[3]
  /\ UNCHANGED <<variant, status, pcm, audio, renderer>>

\* buffer.insert(buffer.end(), pcm.begin(), pcm.end());
CopyPcm ==
  /\ status = "running" /\ variant \in AudioVariants
  /\ pc = DrainLines[3]
  /\ \E read \in (IF audio.inserting THEN {pcm, Append(pcm, 0)} ELSE {pcm}),
        end \in (IF audio.inserting THEN {"running", "crash"} ELSE {"running"}) :
       /\ buffer' = read
       /\ status' = end
       /\ audio' = [audio EXCEPT !.copies = Copied(@, read),
                                 !.garbage = @ \/ read # pcm,
                                 !.touched = @ \/ audio.inserting]
  /\ pc' = DrainLines[4]
  /\ UNCHANGED <<variant, pcm, renderer>>

\* pcm.clear(); then the transform and the frame, and back to the test
ClearPcm ==
  /\ status = "running" /\ variant \in AudioVariants
  /\ pc = DrainLines[4]
  /\ pcm' = <<>>
  /\ audio' = [audio EXCEPT !.touched = @ \/ audio.inserting]
  /\ pc' = DrainLines[1]
  /\ UNCHANGED <<variant, status, buffer, renderer>>

InitAudio ==
  /\ variant \in AudioVariants
  /\ pc = DrainLines[1]
  /\ pcm = <<>> /\ buffer = <<>> /\ audio = Silent
  /\ status = "running"
  /\ state = <<>> /\ stack = <<>> /\ triangles = <<>> /\ reverseSortTriangles = FALSE
  /\ call = [op |-> "init", arg |-> <<>>, ret |-> <<>>, draws |-> <<>>, prev |-> "init"]
  /\ before = [state |-> <<>>, stack |-> <<>>, triangles |-> <<>>, saved |-> <<>>]
  /\ saved = <<>> /\ napply = 0 /\ perspectiveEnabled = TRUE

NextAudio ==
  \/ CallbackBegins
  \/ CallbackEnds
  \/ SizeCheck
  \/ ClearBuffer
  \/ CopyPcm
  \/ ClearPcm

SpecAudio == InitAudio /\ [][NextAudio]_vars

----------------------------------------------------------------------------
(* SpecDivide: one addTriangle of part 008 or 007 whose transformed vertices  *)
(* have any of a set of floats for w                                          *)

\* products of a transform with a vertex
Products ==
  {Vec(F(100 * w.num), F(100 * w.num), F(5), w) : w \in {F(-2), F(0), F(1), F(3)}} \cup
  {Vec(F(100), F(100), F(5), w) : w \in {INFINITY, NegINFINITY, NaN}} \cup
  {Vec(INFINITY, F(100), F(5), INFINITY), Vec(F(-300), F(100), F(5), F(1))}

\* addTriangle, from the products of the transform with its vertices on
AddProducts(t) ==
  /\ status = "running" /\ variant \in {"p008", "p007"}
  /\ LET r == addTriangleF(triangles, state.fillColor, t[1], t[2], t[3], FillUV)
     IN /\ triangles' = r.triangles
        /\ Called("addTriangle", [products |-> t, divided |-> r.divided],
                  IF variant = "p008" THEN <<r.ret>> ELSE <<>>, <<>>)
  /\ UNCHANGED <<variant, state, stack, reverseSortTriangles, status, saved, napply>>

InitDivide == InitOf({"p008", "p007"})

NextDivide ==
  call.op = "init" /\ \E a \in Products, b \in Products, c \in Products :
                        AddProducts(<<a, b, c>>)

SpecDivide == InitDivide /\ [][NextDivide]_vars

----------------------------------------------------------------------------
(* Properties.  `call` is the last call and `before` the state it started in. *)

\* every operation of the three programs, with every argument of the callers
AnyCall == Next \/ NextState \/ NextGeom \/ NextShape \/ NextSort \/ NextBatch \/ NextFrame \/ NextMatrix \/ NextAABB \/ NextMixed \/ NextDivide \/ NextSubmit \/ NextOrder \/ NextAudio

\* C1: flush() on an empty batch returns 0, leaves the batch empty and makes no
\* draw call, in every flush of the repository (part 002's flush returns void).
C1_EmptyFlushIsNoOp ==
  (call.op = "flush" /\ before.triangles = <<>>) =>
    /\ status = "running"
    /\ triangles = <<>>
    /\ call.draws = <<>>
    /\ variant # "p002" => call.ret = <<0>>

\* C2: flush() on a batch of N >= 1 triangles makes exactly one draw call, with
\* 3 * N vertices and no index buffer; when the call returns, the batch is empty
\* and the value returned is N.
C2_FlushDrawsOnce ==
  (call.op = "flush" /\ before.triangles # <<>>) =>
    LET N == Len(before.triangles)
    IN /\ Len(call.draws) = 1
       /\ call.draws[1].num_vertices = 3 * N
       /\ Len(call.draws[1].vertices) = 3 * N
       /\ call.draws[1].num_indices = 0
       /\ status = "running" =>
            /\ triangles = <<>>
            /\ variant # "p002" => call.ret = <<N>>

C2_Witness ==
  /\ variant = "p008" /\ call.op = "flush" /\ status = "running"
  /\ Len(before.triangles) = 2
  /\ call.ret = <<2>>

\* C3: a pop() that directly follows a push() leaves state and stack as they
\* were before the push.
C3_PushPopRestores ==
  [][(call.op = "push" /\ call'.op = "pop") =>
       /\ status' = "running"
       /\ state' = before.state
       /\ stack' = before.stack]_vars

C3_Witness ==
  /\ call.op = "pop" /\ call.prev = "push" /\ status = "running"
  /\ state.transform # IDENTITY
  /\ stack # <<>>

\* C4: pop() restores the state that was current at the most recent push() not
\* yet popped, and removes that entry; the saved entries are the states as they
\* were when pushed, whatever apply() and the color assignments did since.
C4_PopRestoresLastPush ==
  /\ stack = saved
  /\ (call.op = "pop" /\ before.saved # <<>>) =>
       /\ status = "running"
       /\ state = before.saved[Len(before.saved)]
       /\ stack = SubSeq(before.saved, 1, Len(before.saved) - 1)

C4_Witness ==
  /\ call.op = "pop" /\ status = "running"
  /\ Len(before.saved) = 2
  /\ before.saved[1] # before.saved[2]
  /\ state.transform # before.state.transform
  /\ state.fillColor # before.state.fillColor

\* C5: pop() on an empty stack ends the process in panic(): the state is not
\* replaced, and nothing can be called afterwards.
C5_PopOnEmptyPanics ==
  /\ (call.op = "pop" /\ before.stack = <<>>) =>
       /\ status = "panic"
       /\ state = before.state
       /\ stack = <<>>
  /\ status = "panic" => ~ENABLED AnyCall

C5_Witness ==
  /\ call.op = "pop" /\ status = "panic"
  /\ before.stack = <<>>
  /\ state.transform # IDENTITY

UnitVectors == {Vec(1, 0, 0, 0), Vec(0, 1, 0, 0), Vec(0, 0, 1, 0), Vec(0, 0, 0, 1)}

\* C6: apply(M) makes the transform T * M: the new transform takes every vector
\* v to T * (M * v), so the matrix applied last acts on a vertex first.  The
\* colors, the saved stack and the batch stay as they were.
C6_ApplyRightMultiplies ==
  call.op = "apply" =>
    /\ \A v \in UnitVectors \cup {Vec(100, 100, 5, 1)} :
         MatVec(state.transform, v) = MatVec(before.state.transform, MatVec(call.arg, v))
    /\ state.fillColor = before.state.fillColor
    /\ state.strokeColor = before.state.strokeColor
    /\ stack = before.stack
    /\ triangles = before.triangles
    /\ status = "running"

C6_Witness ==
  /\ call.op = "apply" /\ napply = 2
  /\ stack # <<>> /\ triangles # <<>>
  /\ state.fillColor = PEACH
  /\ MatMul(before.state.transform, call.arg) # MatMul(call.arg, before.state.transform)

\* The transformed, undivided coordinates of vertex i of the triangle given to
\* the last addTriangle, as integers: row x, y, z, w of the transform times it.
Tx(i) == dot(before.state.transform.x, call.arg.t[i])
Ty(i) == dot(before.state.transform.y, call.arg.t[i])
Tz(i) == dot(before.state.transform.z, call.arg.t[i])
Tw(i) == dot(before.state.transform.w, call.arg.t[i])

Submitted == call.op = "addTriangle" /\ variant \in {"p008", "p007"}

\* the last addTriangle appended exactly one triangle to the batch
Retained ==
  /\ Len(triangles) = Len(before.triangles) + 1
  /\ SubSeq(triangles, 1, Len(before.triangles)) = before.triangles

\* the vertices of a sequence of triangles
VerticesOf(tris) == {tris[i][j] : i \in 1..Len(tris), j \in 1..3}

\* C7: a triangle with a vertex whose w is <= 0 after the transform is dropped
\* whole: the batch is unchanged and (part 008) AABB_BOTTOM is returned.  A
\* flush draws the vertices of the batch and no others, so a dropped triangle is
\* in no later draw call.
C7_BehindCameraDropped ==
  /\ (Submitted /\ \E i \in 1..3 : Tw(i) <= 0) =>
       /\ triangles = before.triangles
       /\ variant = "p008" => call.ret = <<AABB_BOTTOM>>
  /\ (call.op = "flush" /\ variant \in {"p008", "p007"}) =>
       \A k \in 1..Len(call.draws) :
         /\ Len(call.draws[k].vertices) = 3 * Len(before.triangles)
         /\ \A j \in 1..Len(call.draws[k].vertices) :
              call.draws[k].vertices[j] \in VerticesOf(before.triangles)

C7_Witness ==
  /\ Submitted /\ variant = "p008"
  /\ \E i \in 1..3 : Tw(i) <= 0
  /\ \E i \in 1..3 : Tw(i) > 0
  /\ before.triangles # <<>>
  /\ before.state.transform = PERSPECTIVE

AllLeft == \A i \in 1..3 : Tx(i) < 0
AllRight == \A i \in 1..3 : Tx(i) > WIDTH * Tw(i)
AllAbove == \A i \in 1..3 : Ty(i) < 0
AllBelow == \A i \in 1..3 : Ty(i) > HEIGHT * Tw(i)

\* vertex i of the appended triangle is at x / w, y / w of the transformed input
Unclipped(i) ==
  LET v == triangles[Len(triangles)][i]
  IN /\ v.x.den > 0 /\ v.x.num * Tw(i) = Tx(i) * v.x.den
     /\ v.y.den > 0 /\ v.y.num * Tw(i) = Ty(i) * v.y.den

\* C8: with all w > 0, a triangle with all three x / w < 0 is culled; any other
\* triangle is retained with its coordinates as they are, unless all three
\* vertices are beyond one of the other boundaries (x / w > WIDTH, y / w < 0,
\* y / w > HEIGHT).  The tests are strict: a vertex on a boundary is not outside.
C8_ScreenBoundaryCulling ==
  (Submitted /\ \A i \in 1..3 : Tw(i) > 0) =>
    /\ AllLeft => triangles = before.triangles
    /\ ~AllLeft =>
         IF AllRight \/ AllAbove \/ AllBelow
         THEN triangles = before.triangles
         ELSE Retained /\ \A i \in 1..3 : Unclipped(i)

C8_Witness ==
  /\ Submitted /\ Retained
  /\ \A i \in 1..3 : Tw(i) > 0 /\ Tx(i) <= 0 /\ Ty(i) >= HEIGHT * Tw(i)
  /\ \E i \in 1..3 : Tx(i) < 0
  /\ \E i \in 1..3 : Ty(i) > HEIGHT * Tw(i)
  /\ \E i \in 1..3 : triangles[Len(triangles)][i].x = F(-1)

\* the side of the line through vertices i and j on which the point (px, py)
\* lies, for w > 0: the sign of a 3 x 3 determinant of homogeneous coordinates
Orient(i, j, px, py) ==
    Tx(i) * (Ty(j) - py * Tw(j))
  - Ty(i) * (Tx(j) - px * Tw(j))
  + Tw(i) * (Tx(j) * py - Ty(j) * px)

\* the point (px, py) is strictly inside the submitted triangle
Inside(px, py) ==
  \/ Orient(1, 2, px, py) > 0 /\ Orient(2, 3, px, py) > 0 /\ Orient(3, 1, px, py) > 0
  \/ Orient(1, 2, px, py) < 0 /\ Orient(2, 3, px, py) < 0 /\ Orient(3, 1, px, py) < 0

\* a triangle around the screen: every vertex off the screen, no boundary with
\* all three vertices beyond it, the whole screen inside the triangle
PictureFrame ==
  /\ Submitted
  /\ \A i \in 1..3 :
       /\ Tw(i) > 0
       /\ \/ Tx(i) < 0 \/ Tx(i) > WIDTH * Tw(i)
          \/ Ty(i) < 0 \/ Ty(i) > HEIGHT * Tw(i)
  /\ ~AllLeft /\ ~AllRight /\ ~AllAbove /\ ~AllBelow
  /\ \A px \in {0, WIDTH}, py \in {0, HEIGHT} : Inside(px, py)

\* C9 as stated: a picture-frame triangle is culled (nothing appended,
\* AABB_BOTTOM returned).
C9_PictureFrameCulled ==
  PictureFrame =>
    /\ triangles = before.triangles
    /\ variant = "p008" => call.ret = <<AABB_BOTTOM>>

\* C9: a triangle around the screen like a picture frame, all three vertices
\* off the screen and no single boundary with all three beyond it, is retained
\* by addTriangle: it is appended and (part 008) its bounding box is returned.
C9_PictureFrameRetained ==
  PictureFrame =>
    /\ Retained
    /\ \A i \in 1..3 : Unclipped(i)
    /\ variant = "p008" => call.ret # <<AABB_BOTTOM>>

C9_Witness ==
  /\ PictureFrame /\ variant = "p008"
  /\ Retained
  /\ before.state.transform = PERSPECTIVE
  /\ Less(call.ret[1].min.x, F(0)) /\ Less(F(WIDTH), call.ret[1].max.x)
  /\ Less(call.ret[1].min.y, F(0)) /\ Less(F(HEIGHT), call.ret[1].max.y)

\* C10: addTriangle (part 008) returns AABB_BOTTOM exactly when it appends
\* nothing.  Otherwise it appends one triangle, whose vertices are the three
\* positions after the divide with the color and the uv pairs of the call, and
\* returns the box whose min and max are, in x, y and z, the least and the
\* greatest of the three positions (w is 1 after the divide).
C10_ReturnsBoundingBox ==
  (call.op = "addTriangle" /\ variant = "p008") =>
    LET r == call.ret[1]
    IN IF triangles = before.triangles
       THEN r = AABB_BOTTOM
       ELSE /\ Retained
            /\ r # AABB_BOTTOM
            /\ r.min.w = F(1) /\ r.max.w = F(1)
            /\ LET t == triangles[Len(triangles)]
               IN /\ \A i \in 1..3 :
                       /\ t[i].color = call.arg.color
                       /\ t[i].u = call.arg.uv[2 * i - 1]
                       /\ t[i].v = call.arg.uv[2 * i]
                       /\ Unclipped(i)
                       /\ t[i].z.den > 0 /\ t[i].z.num * Tw(i) = Tz(i) * t[i].z.den
                  /\ \A k \in {"x", "y", "z"} :
                       /\ r.min[k] \in {t[i][k] : i \in 1..3}
                       /\ r.max[k] \in {t[i][k] : i \in 1..3}
                       /\ \A i \in 1..3 : ~Less(t[i][k], r.min[k]) /\ ~Less(r.max[k], t[i][k])

C10_Witness ==
  /\ call.op = "addTriangle" /\ variant = "p008" /\ Retained
  /\ \E i \in 1..3 : triangles[Len(triangles)][i].x.den = 2
  /\ Less(call.ret[1].min.x, call.ret[1].max.x)
  /\ Less(call.ret[1].min.y, call.ret[1].max.y)
  /\ call.ret[1].max.x = triangles[Len(triangles)][3].x
  /\ call.ret[1].min.x # triangles[Len(triangles)][1].x

\* The transformed, undivided x, y, w of an input vertex v in the state the
\* last call started in, as integers.
Hx(v) == dot(before.state.transform.x, v)
Hy(v) == dot(before.state.transform.y, v)
Hw(v) == dot(before.state.transform.w, v)

\* addTriangle keeps the triangle (a, b, c): every w > 0 and no screen boundary
\* with all three vertices beyond it
Kept(a, b, c) ==
  /\ \A v \in {a, b, c} : Hw(v) > 0
  /\ \E v \in {a, b, c} : Hx(v) >= 0
  /\ \E v \in {a, b, c} : Hx(v) <= WIDTH * Hw(v)
  /\ \E v \in {a, b, c} : Hy(v) >= 0
  /\ \E v \in {a, b, c} : Hy(v) <= HEIGHT * Hw(v)

\* the triangles the last call appended
Appended == SubSeq(triangles, Len(before.triangles) + 1, Len(triangles))

\* where the input vertex v lands, and where a stored vertex is
Landing(v) ==
  LET p == perspectiveDivide(MatVec(before.state.transform, v)) IN <<p.x, p.y, p.z>>

Position(vertex) == <<vertex.x, vertex.y, vertex.z>>

Corners(triangle) == [i \in 1..3 |-> Position(triangle[i])]

RectangleCall == call.op \in {"addFillRectangle", "addStrokeRectangle", "addRectangle"}

\* a rectangle whose corners land on four places and whose two triangles are kept
WholeRectangle ==
  /\ RectangleCall
  /\ LET q == call.arg.q
     IN /\ Kept(q[1], q[2], q[3]) /\ Kept(q[4], q[1], q[3])
        /\ Cardinality({Landing(q[i]) : i \in 1..4}) = 4

\* the quadrant of the atlas and the color a rectangle helper uses
Atlas ==
  IF call.op = "addFillRectangle" THEN [lo |-> F(0), hi |-> HALF, color |-> before.state.fillColor]
  ELSE IF call.op = "addStrokeRectangle"
  THEN [lo |-> HALF, hi |-> F(1), color |-> before.state.strokeColor]
  ELSE [lo |-> F(0), hi |-> F(1), color |-> before.state.fillColor]

\* what a whole rectangle appends; abcFirst: (a, b, c) is appended before (d, a, c)
RectangleAppended(abcFirst) ==
  LET q == call.arg.q
      abc == <<Landing(q[1]), Landing(q[2]), Landing(q[3])>>
      dac == <<Landing(q[4]), Landing(q[1]), Landing(q[3])>>
      new == Appended
  IN /\ before.triangles = SubSeq(triangles, 1, Len(before.triangles))
     /\ Len(new) = 2
     /\ IF abcFirst THEN Corners(new[1]) = abc /\ Corners(new[2]) = dac
        ELSE Corners(new[1]) = dac /\ Corners(new[2]) = abc
     /\ {Position(new[1][i]) : i \in 1..3} \cap {Position(new[2][i]) : i \in 1..3}
          = {Landing(q[1]), Landing(q[3])}
     /\ \A i, j \in 1..3 :
          Position(new[1][i]) = Position(new[2][j]) =>
            new[1][i].u = new[2][j].u /\ new[1][i].v = new[2][j].v
     /\ \A k \in 1..2, i \in 1..3 :
          /\ new[k][i].color = Atlas.color
          /\ ~Less(new[k][i].u, Atlas.lo) /\ ~Less(Atlas.hi, new[k][i].u)
          /\ ~Less(new[k][i].v, Atlas.lo) /\ ~Less(Atlas.hi, new[k][i].v)

\* C11 as stated: a rectangle a, b, c, d with no triangle culled appends
\* (a, b, c) and then (d, a, c).
C11_RectangleInOrder == WholeRectangle => RectangleAppended(TRUE)

\* C11: a rectangle a, b, c, d with no triangle culled appends exactly the two
\* triangles (a, b, c) and (d, a, c), which share exactly a and c, each with the
\* same uv in both; fill rectangles use the atlas quadrant [0, 0.5] x [0, 0.5]
\* and fillColor, stroke rectangles [0.5, 1] x [0.5, 1] and strokeColor, part
\* 007's addRectangle the whole atlas and fillColor.  (a, b, c) comes first in
\* part 007; in part 008 the two calls are operands of operator| and the one
\* the compiler evaluates first comes first.
C11_RectangleTwoTriangles ==
  WholeRectangle => RectangleAppended(variant = "p007" \/ call.arg.order = "ltr")

C11_Witness ==
  /\ WholeRectangle /\ call.op = "addStrokeRectangle" /\ call.arg.order = "rtl"
  /\ Len(Appended) = 2
  /\ before.state.transform = PERSPECTIVE
  /\ before.state.strokeColor # before.state.fillColor

\* the layer of an appended triangle, told by the atlas corner only that
\* layer uses: uv (0, 0) for fill, (1, 1) for stroke
IsFill(triangle) == \E i \in 1..3 : triangle[i].u = F(0) /\ triangle[i].v = F(0)
IsStroke(triangle) == \E i \in 1..3 : triangle[i].u = F(1) /\ triangle[i].v = F(1)

\* box is the AABB of the vertices of the triangles tris: AABB_BOTTOM for none,
\* else the least and the greatest x, y and z among them
BoundOf(tris, box) ==
  IF tris = <<>> THEN box = AABB_BOTTOM
  ELSE \A c \in {"x", "y", "z"} :
         LET Values == {tris[k][i][c] : k \in 1..Len(tris), i \in 1..3}
         IN /\ box.min[c] \in Values /\ box.max[c] \in Values
            /\ \A v \in Values : ~Less(v, box.min[c]) /\ ~Less(box.max[c], v)

\* C12: addBox() (part 008) appends fill triangles only when fillColor.a != 0
\* and stroke triangles only when strokeColor.a != 0, so nothing when both are
\* 0; at most 12 triangles per layer, each in that layer's color; and it
\* returns the componentwise min/max over the vertices it appended, which is
\* AABB_BOTTOM when it appended none.
C12_BoxLayers ==
  (call.op = "addBox" /\ variant = "p008") =>
    LET new == Appended
        fill == before.state.fillColor
        stroke == before.state.strokeColor
        FillTriangles == {k \in 1..Len(new) : IsFill(new[k])}
        StrokeTriangles == {k \in 1..Len(new) : IsStroke(new[k])}
    IN /\ before.triangles = SubSeq(triangles, 1, Len(before.triangles))
       /\ FillTriangles \cup StrokeTriangles = 1..Len(new)
       /\ FillTriangles \cap StrokeTriangles = {}
       /\ fill.a = 0 => FillTriangles = {}
       /\ stroke.a = 0 => StrokeTriangles = {}
       /\ Cardinality(FillTriangles) <= 12 /\ Cardinality(StrokeTriangles) <= 12
       /\ \A k \in FillTriangles, i \in 1..3 : new[k][i].color = fill
       /\ \A k \in StrokeTriangles, i \in 1..3 : new[k][i].color = stroke
       /\ BoundOf(new, call.ret[1])

C12_Witness ==
  /\ call.op = "addBox" /\ variant = "p008" /\ call.arg.order = "rtl"
  /\ before.state.fillColor.a = 0 /\ before.state.strokeColor.a # 0
  /\ Len(Appended) > 0 /\ Len(Appended) < 12
  /\ Less(call.ret[1].min.x, F(0)) /\ Less(F(0), call.ret[1].max.x)

\* the triangles of the draw call of the last flush, in the order drawn
Vertices == call.draws[1].vertices

Drawn == [k \in 1..(Len(Vertices) \div 3) |->
            <<Vertices[3 * k - 2], Vertices[3 * k - 1], Vertices[3 * k]>>]

Draws == call.op = "flush" /\ call.draws # <<>>

\* p comes before q, or is q, in the lexicographic order of sequences of floats
RECURSIVE LexLeq(_, _)
LexLeq(p, q) ==
  IF p = <<>> THEN TRUE
  ELSE IF Less(Head(p), Head(q)) THEN TRUE
  ELSE IF Less(Head(q), Head(p)) THEN FALSE
  ELSE LexLeq(Tail(p), Tail(q))

\* the triangle t has the vertices of the triangle u, in some order
SameVertices(t, u) == \E p \in Permutations(1..3) : \A i \in 1..3 : t[i] = u[p[i]]

\* the triangles drawn are those of the batch, each with its vertices in some order
DrawnFromBatch ==
  /\ Len(Vertices) = 3 * Len(before.triangles)
  /\ \E p \in Permutations(1..Len(before.triangles)) :
       \A k \in 1..Len(before.triangles) : SameVertices(Drawn[k], before.triangles[p[k]])

\* C13: in the draw call of flush every triangle has its own three vertices in
\* ascending (z, y, x) order; the triangle (100,100,5), (200,100,5), (150,50,5)
\* alone in the batch is drawn as (150,50,5), (100,100,5), (200,100,5), and
\* flush returns 1.
C13_VerticesAscending ==
  Draws =>
    /\ DrawnFromBatch
    /\ \A k \in 1..Len(Drawn) : \A i, j \in 1..3 :
         i < j => LexLeq(<<Drawn[k][i].z, Drawn[k][i].y, Drawn[k][i].x>>,
                         <<Drawn[k][j].z, Drawn[k][j].y, Drawn[k][j].x>>)
    /\ (/\ Len(before.triangles) = 1
        /\ Corners(before.triangles[1]) =
             <<<<F(100), F(100), F(5)>>, <<F(200), F(100), F(5)>>, <<F(150), F(50), F(5)>>>>)
       => /\ Corners(Drawn[1]) =
               <<<<F(150), F(50), F(5)>>, <<F(100), F(100), F(5)>>, <<F(200), F(100), F(5)>>>>
          /\ (status = "running" /\ variant # "p002") => call.ret = <<1>>

C13_Witness ==
  /\ Draws /\ variant = "p008" /\ status = "running"
  /\ Len(before.triangles) = 1
  /\ Corners(before.triangles[1]) =
       <<<<F(100), F(100), F(5)>>, <<F(200), F(100), F(5)>>, <<F(150), F(50), F(5)>>>>
  /\ call.ret = <<1>>

\* the 9-component key of a triangle
Key(t) == <<t[1].z, t[2].z, t[3].z, t[1].y, t[2].y, t[3].y, t[1].x, t[2].x, t[3].x>>

\* the least z of a triangle's vertices
MinZ(t) == CHOOSE z \in {t[i].z : i \in 1..3} : \A i \in 1..3 : ~Less(t[i].z, z)

\* the flag the last flush saw: no flush changes it, and only part 008 has it
Reversed == variant = "p008" /\ reverseSortTriangles

\* C14: with the reverse flag off, the triangles of the draw call come in
\* non-decreasing lexicographic order of the key (z0, z1, z2, y0, y1, y2, x0,
\* x1, x2) of the vertex-sorted triangles, and so in non-decreasing order of
\* their least z.
C14_TrianglesAscending ==
  (Draws /\ ~Reversed) =>
    \A k, l \in 1..Len(Drawn) :
      k < l => /\ LexLeq(Key(Drawn[k]), Key(Drawn[l]))
               /\ ~Less(MinZ(Drawn[l]), MinZ(Drawn[k]))

C14_Witness ==
  /\ Draws /\ ~Reversed /\ Len(Drawn) = 2
  /\ Key(Drawn[1]) # Key(Drawn[2])
  /\ MinZ(Drawn[1]) = MinZ(Drawn[2])
  /\ Drawn[1][1].y = Drawn[2][1].y
  /\ SameVertices(Drawn[1], before.triangles[2])

\* C15: with the reverse flag on, the draw call of flush is that of some flush
\* of the same batch with the flag off, read from the last triangle to the
\* first: the keys are non-increasing, the triangles are those of the batch,
\* each with its vertices ascending, and the count returned is the same.
C15_ReverseFlag ==
  (Draws /\ Reversed) =>
    /\ DrawnFromBatch
    /\ \A k, l \in 1..Len(Drawn) : k < l => LexLeq(Key(Drawn[l]), Key(Drawn[k]))
    /\ \E o \in flush(before.triangles, FALSE) :
         /\ o.status = status /\ o.ret = call.ret
         /\ Len(o.draws) = 1
         /\ o.draws[1].num_vertices = call.draws[1].num_vertices
         /\ Len(o.draws[1].vertices) = Len(Vertices)
         /\ \A k \in 1..Len(Drawn), i \in 1..3 :
              o.draws[1].vertices[3 * (Len(Drawn) - k) + i] = Drawn[k][i]
    /\ status = "running" => call.ret = <<Len(before.triangles)>>

C15_Witness ==
  /\ Draws /\ Reversed /\ Len(Drawn) = 2 /\ status = "running"
  /\ Key(Drawn[1]) # Key(Drawn[2])
  /\ MinZ(Drawn[1]) = MinZ(Drawn[2])
  /\ SameVertices(Drawn[1], before.triangles[1])

FrameStart ==
  IF variant = "p008" THEN 831
  ELSE IF variant = "p007" THEN 732
  ELSE IF variant = "p003" THEN 454
  ELSE 198

\* C17: in the demo loops no pop() finds the stack empty, the stack is empty
\* where a frame starts and where flush() is called, and it never holds more
\* than two states.
C17_StackBalanced ==
  /\ status # "panic"
  /\ call.op = "pop" => before.stack # <<>> /\ Len(stack) = Len(before.stack) - 1
  /\ pc = FrameStart => stack = <<>>
  /\ At("flush") => stack = <<>>
  /\ call.op = "flush" => before.stack = <<>>
  /\ Len(stack) <= 2

\* a box of part 008 is in the batch, inside the scope of the frame and its own
C17_Witness ==
  /\ variant = "p008" /\ call.op = "addBox" /\ Len(stack) = 2 /\ triangles # <<>>
  /\ before.saved[1].fillColor = PEACH /\ before.saved[2].transform # IDENTITY

\* C18: when the draw call of flush() reports an error the process is in
\* its fatal state: flush() has not returned, it has made that one draw call,
\* the batch is as it was drawn, and no call follows.  The fatal state is
\* entered in no other way.
C18_DrawErrorIsFatal ==
  /\ call.op = "flush" /\ call.arg # <<>> /\ call.arg[1] # 0 =>
       /\ status = "sdlError"
       /\ call.ret = <<>>
       /\ Len(call.draws) = 1
       /\ Len(triangles) = Len(before.triangles)
       /\ ~ENABLED AnyCall
  /\ status = "sdlError" => call.op = "flush" /\ call.arg # <<>> /\ call.arg[1] # 0

C18_Witness ==
  /\ status = "sdlError" /\ call.op = "flush" /\ call.arg = <<-1>>
  /\ Len(call.draws) = 1 /\ Len(before.triangles) = 2
  /\ call.draws[1].num_vertices = 6

\* every entry of m is an integer that float holds exactly
Exact(m) == \A r \in Axes, c \in Axes : m[r][c] > -16777216 /\ m[r][c] < 16777216

\* C19: on matrices with integer entries operator* is associative, IDENTITY
\* is its identity on both sides, and it is not commutative.  A is the
\* transform apply() found, B its argument, C any matrix of the domain.
C19_MatrixProduct ==
  /\ MatMul(IDENTITY, state.transform) = state.transform
  /\ MatMul(state.transform, IDENTITY) = state.transform
  /\ call.op = "apply" =>
       LET A == before.state.transform
           B == call.arg
       IN /\ state.transform = MatMul(A, B)
          /\ \A C \in MatrixDomain :
               /\ MatMul(MatMul(A, B), C) = MatMul(A, MatMul(B, C))
               /\ Exact(MatMul(MatMul(A, B), C))
  /\ \E A \in MatrixDomain, B \in MatrixDomain : MatMul(A, B) # MatMul(B, A)

\* a product that differs from the product in the other order, of two
\* matrices neither of which is the identity
C19_Witness ==
  /\ call.op = "apply" /\ variant = "p008"
  /\ before.state.transform = translation(1, 2, 3) /\ call.arg = PERSPECTIVE
  /\ state.transform = MatMul(translation(1, 2, 3), PERSPECTIVE)
  /\ state.transform # MatMul(PERSPECTIVE, translation(1, 2, 3))

\* no coordinate of the box is NaN
Numbers(b) ==
  \A c \in Axes : ~IsNaN(b.min[c]) /\ ~IsNaN(b.max[c])

\* the laws of | and & for the operands A, B of the last call and every box C
\* among the boxes S
Lattice(A, B, S) ==
  /\ Union(AABB_BOTTOM, A) = A /\ Union(A, AABB_BOTTOM) = A
  /\ Intersection(AABB_TOP, A) = A /\ Intersection(A, AABB_TOP) = A
  /\ Union(A, B) = Union(B, A)
  /\ Intersection(A, B) = Intersection(B, A)
  /\ call.op = "|" => call.ret[1] = Union(B, A)
  /\ call.op = "&" => call.ret[1] = Intersection(B, A)
  /\ \A C \in S :
       /\ Union(Union(A, B), C) = Union(A, Union(B, C))
       /\ Intersection(Intersection(A, B), C) = Intersection(A, Intersection(B, C))
       /\ UnionAll(<<A, AABB_BOTTOM, B, C>>) = UnionAll(<<C, B, A, AABB_BOTTOM>>)

Submissions == {"addTriangle", "addFillRectangle", "addStrokeRectangle", "addRectangle", "addBox"}

\* C21: in the demo loops a frame is presented right after its one flush(),
\* with nothing submitted in between; the batch is empty when the frame is
\* presented and when the next frame starts; and what a flush() draws is the
\* batch submitted since the frame started, all of it.
C21_FrameDrained ==
  /\ status = "running" /\ At("present") => call.op = "flush" /\ triangles = <<>>
  /\ call.op = "present" => call.prev = "flush" /\ pc = FrameStart
  /\ pc = FrameStart => triangles = <<>>
  /\ call.op \in Submissions => ~At("present") /\ call.prev # "flush"
  /\ call.op = "flush" /\ status = "running" => At("present") /\ Len(call.draws) <= 1
  /\ call.op = "flush" /\ call.draws # <<>> =>
       call.draws[1].num_vertices = 3 * Len(before.triangles)

\* part 008 is about to present a frame whose flush() drew a box and its
\* highlight
C21_Witness ==
  /\ variant = "p008" /\ At("present") /\ call.op = "flush" /\ call.prev = "addFillRectangle"
  /\ call.ret = <<4>> /\ Len(call.draws) = 1 /\ triangles = <<>>

\* the calls that neither submit nor flush
StateCalls ==
  {"init", "push", "pop", "apply", "fillColor", "strokeColor", "reverse", "present",
   "keyP", "keyR"}

\* C22: a call that neither submits nor flushes leaves the batch as it is; a
\* submission leaves it as it is or appends at its end, and what addTriangle
\* appends has the color passed and the place the transform of that moment
\* gives it; a flush that returns leaves it empty; and only flush draws.
C22_BatchAppendOrClear ==
  /\ call.op \in StateCalls => triangles = before.triangles
  /\ call.op \in Submissions =>
       /\ Len(triangles) >= Len(before.triangles)
       /\ SubSeq(triangles, 1, Len(before.triangles)) = before.triangles
  /\ call.op = "addTriangle" => triangles = before.triangles \/ Retained
  /\ call.op = "addTriangle" /\ Retained =>
       \A i \in 1..3 :
         /\ Appended[1][i].color = call.arg.color
         /\ Position(Appended[1][i]) =
              (IF variant = "p002"
               THEN <<F(call.arg.t[i].x), F(call.arg.t[i].y), F(call.arg.t[i].z)>>
               ELSE Landing(call.arg.t[i]))
  /\ call.op = "flush" /\ status = "running" => triangles = <<>>
  /\ call.draws # <<>> => call.op = "flush"

\* a pop() that brings back another transform and another color than the
\* triangle in the batch was submitted with
C22_Witness ==
  /\ call.op = "pop" /\ status = "running" /\ variant = "p008"
  /\ Len(triangles) = 2 /\ triangles = before.triangles
  /\ state.transform # before.state.transform
  /\ triangles[2][1].color # state.fillColor
  /\ triangles[1][1].x # triangles[2][1].x

\* what the backend is to read for a vertex of the batch
Attributes(vertex) ==
  [xy |-> <<vertex.x, vertex.y>>, color |-> vertex.color,
   uv |-> IF "u" \in DOMAIN vertex THEN <<vertex.u, vertex.v>> ELSE <<>>]

\* C23: the triangles of a draw call are the triangles of the batch flush
\* found, each once and each with its own three vertices, position, color and
\* uv together; and the backend reads for every vertex the xy, the color and
\* the uv of that one vertex.
C23_DrawnIsPermutation ==
  Draws =>
    /\ call.draws[1].num_vertices = 3 * Len(before.triangles)
    /\ Len(Vertices) = call.draws[1].num_vertices
    /\ \E p \in Permutations(1..Len(before.triangles)) :
         \A k \in 1..Len(before.triangles) :
           /\ SameVertices(Drawn[k], before.triangles[p[k]])
           /\ {Fetch(call.draws[1], 3 * (k - 1) + i) : i \in 0..2} =
                {Attributes(before.triangles[p[k]][i]) : i \in 1..3}

\* two triangles, drawn in the other order than submitted and the first
\* submitted with its vertices reordered
C23_Witness ==
  /\ Draws /\ variant = "p008" /\ Len(before.triangles) = 2
  /\ SameVertices(Drawn[1], before.triangles[2])
  /\ ~SameVertices(Drawn[1], before.triangles[1])
  /\ Drawn[2] # before.triangles[1]
  /\ Fetch(call.draws[1], 3).uv # <<before.triangles[1][1].u, before.triangles[1][1].v>>

\* C24: in the demo of part 008 reverseSortTriangles is the negation of
\* perspectiveEnabled between any two events and calls; the P key changes
\* both and no other event or call changes either; and a flush draws in
\* ascending order of the keys with perspective enabled, in descending order
\* with perspective disabled.
C24_ReverseIffNoPerspective ==
  variant = "p008" =>
    /\ reverseSortTriangles = ~perspectiveEnabled
    /\ call.op = "init" => perspectiveEnabled /\ ~reverseSortTriangles
    /\ Draws =>
         \A k, l \in 1..Len(Drawn) :
           k < l => IF perspectiveEnabled
                    THEN LexLeq(Key(Drawn[k]), Key(Drawn[l]))
                    ELSE LexLeq(Key(Drawn[l]), Key(Drawn[k]))

\* a flush with perspective disabled that drew two triangles with different
\* keys
C24_Witness ==
  /\ variant = "p008" /\ ~perspectiveEnabled /\ reverseSortTriangles
  /\ Draws /\ Len(Drawn) = 2 /\ Key(Drawn[1]) # Key(Drawn[2])
  /\ status = "running"

\* the transform a demo has outside its per-frame scope
BaseTransform ==
  IF variant \in {"p007", "p003"} THEN viewport(WIDTH, HEIGHT) ELSE IDENTITY

\* C25: where a frame starts, where flush() is called and where the frame is
\* presented the transform is the base one: IDENTITY in part 008, viewport()
\* in parts 007 and 003.  The highlight rectangle of part 008 is submitted
\* under the identity and is stored at the coordinates it was given.
C25_BaseTransform ==
  /\ pc = FrameStart => state.transform = BaseTransform
  /\ At("flush") \/ At("present") => state.transform = BaseTransform
  /\ call.op = "flush" => before.state.transform = BaseTransform
  /\ call.op = "addFillRectangle" =>
       /\ before.state.transform = IDENTITY
       /\ Len(Appended) = 2
       /\ \A k \in 1..2, i \in 1..3 :
            \E v \in {Highlight[j] : j \in 1..4} :
              Position(Appended[k][i]) = <<F(v.x), F(v.y), F(v.z)>>
       /\ {Position(Appended[k][i]) : k \in 1..2, i \in 1..3} =
            {<<F(Highlight[j].x), F(Highlight[j].y), F(Highlight[j].z)>> : j \in 1..4}

\* the highlight rectangle joins a box that was submitted under the viewport,
\* the projection and the camera
C25_Witness ==
  /\ variant = "p008" /\ call.op = "addFillRectangle" /\ perspectiveEnabled
  /\ Len(before.triangles) = 4 /\ Len(triangles) = 6
  /\ state.transform = IDENTITY /\ stack = <<>>

\* the vectors the last addTriangle called perspectiveDivide on
Divided == {call.arg.divided[i] : i \in 1..Len(call.arg.divided)}

DivideCall == call.op = "addTriangle" /\ "divided" \in DOMAIN call.arg

\* C26 as stated: perspectiveDivide is called only on vectors with w > 0.
C26_DividesPositiveW ==
  DivideCall => \A v \in Divided : Less(F(0), v.w)

\* C26: perspectiveDivide is called on all three products or on none, and
\* only when no w is <= 0: each w is then greater than 0 or NaN, so nothing
\* is divided by zero or by a negative w; and a triangle is stored only after
\* the division.
C26_NoDivisionByZero ==
  DivideCall =>
    /\ Len(call.arg.divided) \in {0, 3}
    /\ call.arg.divided # <<>> => call.arg.divided = call.arg.products
    /\ (\E i \in 1..3 : LessEq(call.arg.products[i].w, F(0))) => call.arg.divided = <<>>
    /\ \A v \in Divided :
         /\ Less(F(0), v.w) \/ IsNaN(v.w)
         /\ ~Same(v.w, F(0)) /\ ~Less(v.w, F(0))
    /\ triangles # before.triangles => call.arg.divided # <<>>

\* a triangle with w = 3, 1 and infinity is divided and stored
C26_Witness ==
  /\ DivideCall /\ Retained
  /\ call.arg.products[1].w = F(3) /\ call.arg.products[2].w = F(1)
  /\ call.arg.products[3].w = INFINITY
  /\ triangles[1][1].x = F(100) /\ triangles[1][3].x = F(0)

\* C27: in the box swarm of part 007, flush() is never entered with an empty
\* batch: in every frame at least one triangle of a box survives culling.
C27_FlushNeverEmpty ==
  (variant = "p007" /\ pc # 0 /\ call.op = "flush") => before.triangles # <<>>

\* nothing of the last submission is in view: a triangle with a w <= 0 or
\* with its three vertices beyond one edge of the screen, or a shape of part
\* 008 that returned the empty bounding box
Culled ==
  IF call.op = "addTriangle"
  THEN (\E i \in 1..3 : Tw(i) <= 0) \/ AllLeft \/ AllRight \/ AllAbove \/ AllBelow
  ELSE variant = "p008" /\ call.ret = <<AABB_BOTTOM>>

\* C28: a submission (addTriangle, a rectangle, a box) leaves the transform,
\* the colors and the stack of saved states as they were, whether anything
\* of it is retained or not; a submission of which nothing is in view leaves
\* the batch as it was, too.
C28_SubmissionKeepsState ==
  call.op \in Submissions =>
    /\ state = before.state
    /\ stack = before.stack
    /\ Culled => triangles = before.triangles

\* a box with both layers culled whole, submitted into a batch of one
\* triangle under a transform and a fill color that are not the initial ones,
\* with a state saved
C28_Witness ==
  /\ variant = "p008" /\ call.op = "addBox" /\ Culled
  /\ stack # <<>> /\ state.transform # IDENTITY
  /\ state.fillColor = PEACH /\ state.strokeColor = BLACK
  /\ Len(triangles) = 1

\* the batch with the vertices of its triangle i in the order p
Reordered(tris, i, p) ==
  [k \in 1..Len(tris) |-> IF k = i THEN <<tris[i][p[1]], tris[i][p[2]], tris[i][p[3]]>>
                          ELSE tris[k]]

\* the three vertices of the triangle are at three different places
DistinctPositions(t) == \A i, j \in 1..3 : i # j => Position(t[i]) # Position(t[j])

\* C29: what flush() draws does not depend on the order in which the three
\* vertices of a triangle (at three different places) were passed to
\* addTriangle: with the vertices in any of the 6 orders, the first loop
\* leaves the triangle with the same vertex order and so the same key, and the
\* flush has the same outcomes, the triangle at the same place among the
\* others; and the triangles of a batch that have the same vertices are drawn
\* as the same triangle.
C29_VertexOrderIrrelevant ==
  (Draws /\ variant = "p008") =>
    /\ \A i \in 1..Len(before.triangles), p \in Permutations(1..3) :
         DistinctPositions(before.triangles[i]) =>
           LET other == Reordered(before.triangles, i, p)
           IN /\ VertexSortOutcomes(other) = VertexSortOutcomes(before.triangles)
              /\ {Key(vs[i]) : vs \in VertexSortOutcomes(other)} =
                   {Key(vs[i]) : vs \in VertexSortOutcomes(before.triangles)}
              /\ flush(other, reverseSortTriangles) =
                   flush(before.triangles, reverseSortTriangles)
    /\ \A i, j \in 1..Len(before.triangles) :
         (DistinctPositions(before.triangles[i])
            /\ SameVertices(before.triangles[i], before.triangles[j])) =>
           \E k, l \in 1..Len(Drawn) :
             /\ k # l \/ i = j
             /\ Drawn[k] = Drawn[l]
             /\ SameVertices(Drawn[k], before.triangles[i])

\* a flush of a triangle passed with its vertices in another order than the
\* sorted one, submitted first and drawn after the other triangle of the batch
C29_Witness ==
  /\ Draws /\ variant = "p008" /\ ~reverseSortTriangles
  /\ Len(before.triangles) = 2
  /\ ~SameVertices(before.triangles[1], before.triangles[2])
  /\ SameVertices(Drawn[2], before.triangles[1])
  /\ Drawn[2] # before.triangles[1]
  /\ Position(before.triangles[1][1]) = <<F(200), F(100), F(5)>>

\* C30: in the FFT visualizers no chunk of samples is lost or corrupted
\* between the callback and the main loop: the process goes on, buffer never
\* receives anything the callback did not deliver, no chunk is copied into
\* buffer twice, and a chunk that was delivered and is no longer in pcm has
\* been copied into buffer.
C30_NoSampleLost ==
  variant \in AudioVariants =>
    /\ status = "running"
    /\ ~audio.garbage
    /\ \A s \in 1..audio.delivered :
         /\ audio.copies[s] <= 1
         /\ (\A i \in 1..Len(pcm) : pcm[i] # s) => audio.copies[s] = 1

====
